---------------------------- MODULE Spec2Model ----------------------------
(***************************************************************************)
(* A model of the ALINE migraine simulator (scripts/simulator.py) and of   *)
(* the active-query policy utilities (models/policy_utils.py).             *)
(*                                                                         *)
(* Real numbers are fixed point integers.  The simulator works in          *)
(* hundredths ("centi": 100 is 1.0), probabilities in units of 1e-8.       *)
(* The generator np.random.RandomState is a deterministic stream: a state  *)
(* and a step function; every variate is a function of the state reached.  *)
(***************************************************************************)
EXTENDS Integers, Sequences, FiniteSets, TLC

VARIABLES
    config,     \* the SimulatorConfig both runs are constructed from
    rng,        \* rng[r]: state of self.rng of run r
    pc,         \* pc[r]: "new", "idle", "loop", "days", "done", "error"
    order,      \* order[r]: the user ids run r simulates, in call order
    idx,        \* idx[r]: how many users of order[r] have been simulated
    day,        \* day[r]: loop variable of simulate_user
    Z,          \* Z[r]: latent state of the user being simulated
    records,    \* records[r]: the list `records` of simulate_user
    all_data,   \* all_data[r]: the per-user DataFrames, in call order
    df,         \* df[r]: the concatenated dataset
    raised,     \* raised[r]: the exception that ended run r, "none" if none
    log,        \* log[r]: the levels of the messages run r has logged
    call,       \* the arguments of a call of a pure function
    ret,        \* what that call returned
    limiter,    \* the RateLimiter: max_calls, period and the list calls
    clock,      \* datetime.now(), in seconds
    tasks,      \* tasks[i]: where coroutine i is in acquire(), with its `now`
    completed   \* the times at which calls of acquire() returned

simVars == <<config, rng, pc, order, idx, day, Z, records, all_data, df, raised, log>>
fnVars == <<call, ret>>
svcVars == <<limiter, clock, tasks, completed>>
vars ==
    <<config, rng, pc, order, idx, day, Z, records, all_data, df, raised, log,
      call, ret, limiter, clock, tasks, completed>>

-----------------------------------------------------------------------------
(* Bounds of the model *)

MaxSeed == 2
MaxUsers == 2
MaxHorizon == 2

-----------------------------------------------------------------------------
(* Arithmetic helpers *)

Abs(x) == IF x >= 0 THEN x ELSE -x

Min2(a, b) == IF a <= b THEN a ELSE b

Max2(a, b) == IF a >= b THEN a ELSE b

\* a / b rounded to the nearest integer, b > 0
DivRound(a, b) == IF a >= 0 THEN (2 * a + b) \div (2 * b)
                  ELSE -((2 * (-a) + b) \div (2 * b))

RECURSIVE SumSeq(_)
SumSeq(s) == IF s = <<>> THEN 0 ELSE Head(s) + SumSeq(Tail(s))

\* np.dot of two vectors of the same length
Dot(a, b) == SumSeq([i \in 1..Len(a) |-> a[i] * b[i]])

\* range(n) as a sequence
RangeSeq(n) == [i \in 1..n |-> i - 1]

-----------------------------------------------------------------------------
(* np.random.RandomState *)

\* One step of the generator
RngNext(s) == (s * 5 + 3) % 256

\* RandomState(None): seeded from the operating system's entropy
RandomStateUnseeded(seed) == {(seed * 37 + 11) % 256, (seed * 37 + 12) % 256}

\* RandomState(seed): the generator states construction can yield
RandomState(seed) == {(seed * 37 + 11) % 256}

StdNormalTable == <<-150, -50, 0, 50, 150>>

UniformTable == <<0, 25, 50, 75>>

StdExponentialTable == <<10, 50, 100, 200, 400>>

Uniform01Table == <<5000000, 30000000, 50000000, 70000000, 95000000>>

\* The standard normal variate drawn at state s (centi)
StdNormalAt(s) == StdNormalTable[((s \div 8) % 5) + 1]

\* The uniform [0,1) variate drawn at state s (centi)
UniformAt(s) == UniformTable[((s \div 8) % 4) + 1]

\* The standard exponential variate drawn at state s (centi)
StdExponentialAt(s) == StdExponentialTable[((s \div 8) % 5) + 1]

\* The uniform [0,1) variate drawn at state s (1e-8)
Uniform01At(s) == Uniform01Table[((s \div 8) % 5) + 1]

\* rng.randn(n): n successive standard normal draws; <<values, state after>>
RECURSIVE Randn(_, _)
Randn(n, s) ==
    IF n = 0 THEN [values |-> <<>>, rng |-> s]
    ELSE LET s1 == RngNext(s)
             rest == Randn(n - 1, s1)
         IN [values |-> <<StdNormalAt(s1)>> \o rest.values, rng |-> rest.rng]

ExpTable ==
    [i \in -16..24 |->
        CASE i = -16 -> 2 [] i = -15 -> 2 [] i = -14 -> 3 [] i = -13 -> 4
          [] i = -12 -> 5 [] i = -11 -> 6 [] i = -10 -> 8 [] i = -9 -> 11
          [] i = -8 -> 14 [] i = -7 -> 17 [] i = -6 -> 22 [] i = -5 -> 29
          [] i = -4 -> 37 [] i = -3 -> 47 [] i = -2 -> 61 [] i = -1 -> 78
          [] i = 0 -> 100 [] i = 1 -> 128 [] i = 2 -> 165 [] i = 3 -> 212
          [] i = 4 -> 272 [] i = 5 -> 349 [] i = 6 -> 448 [] i = 7 -> 575
          [] i = 8 -> 739 [] i = 9 -> 949 [] i = 10 -> 1218 [] i = 11 -> 1564
          [] i = 12 -> 2009 [] i = 13 -> 2579 [] i = 14 -> 3312
          [] i = 15 -> 4252 [] i = 16 -> 5460 [] i = 17 -> 7011
          [] i = 18 -> 9002 [] i = 19 -> 11558 [] i = 20 -> 14841
          [] i = 21 -> 19057 [] i = 22 -> 24469 [] i = 23 -> 31419
          [] OTHER -> 40343]

\* np.exp on a centi argument, centi result (tabulated every 0.25)
ExpCenti(x) == ExpTable[Max2(-16, Min2(24, DivRound(x, 25)))]

-----------------------------------------------------------------------------
(* MigraineSimulator._sample_feature *)

Has(prior, key) == key \in DOMAIN prior

\* The value left as drawn
NoClip(value, lo, hi) == value

\* np.clip(value, lo, hi)
NpClip(value, lo, hi) == Min2(Max2(value, lo), hi)

\* A lookup of the kind without a default
DistTypeStrict(prior) == IF Has(prior, "dist") THEN prior.dist ELSE "missing"

\* prior.get('dist', 'normal')
DistType(prior) == IF Has(prior, "dist") THEN prior.dist ELSE "normal"

\* The keys the branch of dist_type reads with prior[...]
RequiredKeys(dist_type) ==
    CASE dist_type = "normal" -> {"mu", "sigma"}
      [] dist_type = "lognormal" -> {"mu_ln", "sigma_ln"}
      [] dist_type = "uniform" -> {"min", "max"}
      [] OTHER -> {}

\* A final branch that takes any other kind as a placeholder
AnyDist == {"normal", "lognormal", "uniform", "exponential", "cyclical", "beta"}

\* The kinds the if/elif chain has a branch for
KnownDist == {"normal", "lognormal", "uniform", "exponential", "cyclical"}

\* The value drawn before clipping, at the generator state s1 of the draw
RawValue(prior, s1) ==
    LET dist_type == DistType(prior)
    IN CASE dist_type = "normal" ->
              prior.mu + DivRound(prior.sigma * StdNormalAt(s1), 100)
         [] dist_type = "lognormal" ->
              ExpCenti(prior.mu_ln + DivRound(prior.sigma_ln * StdNormalAt(s1), 100))
         [] dist_type = "uniform" ->
              prior.min + DivRound((prior.max - prior.min) * UniformAt(s1), 100)
         [] dist_type = "exponential" ->
              DivRound((IF Has(prior, "mu_ln") THEN prior.mu_ln ELSE 100)
                       * StdExponentialAt(s1), 100)
         [] OTHER -> 0

\* _sample_feature(feature_name, prior) with self.rng in state s
SampleFeature(feature_name, prior, s) ==
    LET dist_type == DistType(prior)
        s1 == IF dist_type = "cyclical" THEN s ELSE RngNext(s)
        value == RawValue(prior, s1)
    IN IF dist_type \notin KnownDist
       THEN [status |-> "ValueError", rng |-> s]
       ELSE IF ~(RequiredKeys(dist_type) \subseteq DOMAIN prior)
       THEN [status |-> "KeyError", rng |-> s]
       ELSE [status |-> "ok", rng |-> s1,
             value |-> IF Has(prior, "min") /\ Has(prior, "max")
                       THEN NpClip(value, prior.min, prior.max)
                       ELSE value]

-----------------------------------------------------------------------------
(* MigraineSimulator._sample_observations *)

\* A lookup of the prior that fails for a feature without one
SampleDefaultMissing(s) == [status |-> "KeyError", rng |-> s]

\* observations[i] = self.rng.randn() for a feature without a prior
SampleDefault(s) ==
    [status |-> "ok", rng |-> RngNext(s), value |-> StdNormalAt(RngNext(s))]

\* observations[i] for i = from..n_features, drawn in feature order
RECURSIVE SampleFrom(_, _, _)
SampleFrom(cfg, i, s) ==
    IF i > Len(cfg.feature_order)
    THEN [status |-> "ok", rng |-> s, values |-> <<>>]
    ELSE LET feature_name == cfg.feature_order[i]
             one == IF feature_name \in DOMAIN cfg.priors
                    THEN SampleFeature(feature_name, cfg.priors[feature_name], s)
                    ELSE SampleDefault(s)
         IN IF one.status # "ok"
            THEN [status |-> one.status, rng |-> one.rng, values |-> <<>>]
            ELSE LET rest == SampleFrom(cfg, i + 1, one.rng)
                 IN [status |-> rest.status, rng |-> rest.rng,
                     values |-> <<one.value>> \o rest.values]

SampleObservations(cfg, s) == SampleFrom(cfg, 1, s)

-----------------------------------------------------------------------------
(* MigraineSimulator._compute_input_effect *)

\* The integer square root
RECURSIVE ISqrtBetween(_, _, _)
ISqrtBetween(n, lo, hi) ==
    IF lo >= hi THEN lo
    ELSE LET mid == (lo + hi + 1) \div 2
         IN IF mid * mid <= n THEN ISqrtBetween(n, mid, hi)
            ELSE ISqrtBetween(n, lo, mid - 1)

\* np.sqrt on a centi argument, centi result
SqrtCenti(x) == ISqrtBetween(x * 100, 0, 46340)

\* The keys the normalisation of a prior reads with prior[...]
NormalizeKeys(prior) ==
    IF Has(prior, "mu") THEN {"mu"}
    ELSE IF Has(prior, "mu_ln") THEN {"mu_ln", "sigma_ln"}
    ELSE IF Has(prior, "min") THEN {"min", "max"}
    ELSE {}

PriorMean(prior) ==
    IF Has(prior, "mu") THEN prior.mu
    ELSE IF Has(prior, "mu_ln")
    THEN ExpCenti(prior.mu_ln + DivRound(prior.sigma_ln * prior.sigma_ln, 200))
    ELSE IF Has(prior, "min") THEN DivRound(prior.min + prior.max, 2)
    ELSE 0

PriorStd(prior) ==
    IF Has(prior, "mu") THEN (IF Has(prior, "sigma") THEN prior.sigma ELSE 100)
    ELSE IF Has(prior, "mu_ln")
    THEN LET s2 == DivRound(prior.sigma_ln * prior.sigma_ln, 100)
         IN SqrtCenti(DivRound((ExpCenti(s2) - 100)
                               * ExpCenti(2 * prior.mu_ln + s2), 100))
    ELSE IF Has(prior, "min") THEN DivRound(prior.max - prior.min, 4)
    ELSE 100

\* max(std, 0.1)
StdFloor(std) == Max2(std, 10)

\* normalized_obs[i]
NormalizedObs(cfg, observations, i) ==
    LET feature_name == cfg.feature_order[i]
    IN IF feature_name \in DOMAIN cfg.priors
       THEN LET prior == cfg.priors[feature_name]
            IN DivRound((observations[i] - PriorMean(prior)) * 100,
                        StdFloor(PriorStd(prior)))
       ELSE observations[i]

\* matrix @ vector, both centi
MatVec(m, v) == [i \in 1..Len(m) |-> DivRound(Dot(m[i], v), 100)]

\* A product that takes the columns there are
ShapesAlignedLoose(m, n) == \A i \in 1..Len(m) : Len(m[i]) <= n

\* The shapes `m @ v` accepts for a vector of n entries
ShapesAligned(m, n) == \A i \in 1..Len(m) : Len(m[i]) = n

ComputeInputEffect(cfg, observations) ==
    IF \E i \in 1..Len(cfg.feature_order) :
          /\ cfg.feature_order[i] \in DOMAIN cfg.priors
          /\ ~(NormalizeKeys(cfg.priors[cfg.feature_order[i]])
                 \subseteq DOMAIN cfg.priors[cfg.feature_order[i]])
    THEN [status |-> "KeyError", value |-> <<>>]
    ELSE IF ~ShapesAligned(cfg.input_matrix, Len(cfg.feature_order))
    THEN [status |-> "ValueError", value |-> <<>>]
    ELSE [status |-> "ok",
          value |-> MatVec(cfg.input_matrix,
                           [i \in 1..Len(cfg.feature_order) |->
                               NormalizedObs(cfg, observations, i)])]

-----------------------------------------------------------------------------
(* MigraineSimulator._evolve_latent_state *)

\* The noise added as drawn, not scaled by process_noise
EvolveLatentStateUnitNoise(cfg, Zv, observations, s) ==
    LET effect == ComputeInputEffect(cfg, observations)
        drawn == Randn(cfg.latent_dim, s)
        az == MatVec(cfg.state_transition_matrix, Zv)
    IN IF effect.status # "ok"
       THEN [status |-> effect.status, rng |-> s, Z |-> Zv]
       ELSE [status |-> "ok", rng |-> drawn.rng,
             Z |-> [i \in 1..cfg.latent_dim |->
                       az[i] + effect.value[i] + drawn.values[i]]]

\* Z_next = A @ Z + B @ u + randn(latent_dim) * process_noise
EvolveLatentState(cfg, Zv, observations, s) ==
    LET effect == ComputeInputEffect(cfg, observations)
        drawn == Randn(cfg.latent_dim, s)
        az == MatVec(cfg.state_transition_matrix, Zv)
    IN IF effect.status # "ok"
       THEN [status |-> effect.status, rng |-> s, Z |-> Zv]
       ELSE [status |-> "ok", rng |-> drawn.rng,
             Z |-> [i \in 1..cfg.latent_dim |->
                       az[i] + effect.value[i]
                       + DivRound(drawn.values[i] * cfg.process_noise[i], 100)]]

-----------------------------------------------------------------------------
(* MigraineSimulator._migraine_probability *)

SigmoidTable64 ==
    [x \in -20..20 |->
        CASE x = -20 -> 1 [] x = -19 -> 1 [] x = -18 -> 2 [] x = -17 -> 4
          [] x = -16 -> 11 [] x = -15 -> 31 [] x = -14 -> 83 [] x = -13 -> 226
          [] x = -12 -> 614 [] x = -11 -> 1670 [] x = -10 -> 4540
          [] x = -9 -> 12339 [] x = -8 -> 33535 [] x = -7 -> 91105
          [] x = -6 -> 247262 [] x = -5 -> 669285 [] x = -4 -> 1798621
          [] x = -3 -> 4742587 [] x = -2 -> 11920292 [] x = -1 -> 26894142
          [] x = 0 -> 50000000 [] x = 1 -> 73105858 [] x = 2 -> 88079708
          [] x = 3 -> 95257413 [] x = 4 -> 98201379 [] x = 5 -> 99330715
          [] x = 6 -> 99752738 [] x = 7 -> 99908895 [] x = 8 -> 99966465
          [] x = 9 -> 99987661 [] x = 10 -> 99995460 [] x = 11 -> 99998330
          [] x = 12 -> 99999386 [] x = 13 -> 99999774 [] x = 14 -> 99999917
          [] x = 15 -> 99999969 [] x = 16 -> 99999989 [] x = 17 -> 99999996
          [] x = 18 -> 99999998 [] x = 19 -> 99999999 [] OTHER -> 99999999]

\* The sigmoid in float32: 1.0 from a logit of 18 on
Sigmoid32Centi(logit) ==
    IF logit >= 1800 THEN 100000000
    ELSE IF logit <= -70979 THEN 0
    ELSE IF logit >= -2000 /\ logit < 1800
    THEN SigmoidTable64[logit \div 100]
    ELSE 1

\* 1.0 / (1.0 + np.exp(-logit)) in float64, logit centi, result in 1e-8:
\* exactly 1 once exp(-logit) is below half an ulp of 1, exactly 0 once
\* exp(-logit) overflows, strictly between otherwise
Sigmoid64(logit) ==
    IF logit >= 3674 THEN 100000000
    ELSE IF logit >= 2000 THEN 99999999
    ELSE IF logit <= -70979 THEN 0
    ELSE IF logit < -2000 THEN 1
    ELSE LET lo == logit \div 100
             frac == logit - 100 * lo
         IN SigmoidTable64[lo]
            + ((SigmoidTable64[lo + 1] - SigmoidTable64[lo]) \div 100) * frac

\* np.dot(migraine_weights, Z) + migraine_bias, centi
Logit(cfg, Zv) == DivRound(Dot(cfg.migraine_weights, Zv), 100) + cfg.migraine_bias

\* The logit restricted to [-500, 500] before it is negated
ExpArgumentClamped(logit) == -Max2(-50000, Min2(50000, logit))

\* The argument np.exp is called with: -logit
ExpArgument(logit) == -logit

\* np.clip(1.0 / (1.0 + np.exp(-logit)), 0.0, 1.0)
MigraineProbability(cfg, Zv) ==
    LET logit == Logit(cfg, Zv)
    IN NpClip(Sigmoid64(-ExpArgument(logit)), 0, 100000000)

-----------------------------------------------------------------------------
(* MigraineSimulator._compute_temporal_features *)

DowSin == <<0, 782, 975, 434, -434, -975, -782>>

DowCos == <<1000, 623, -223, -901, -901, -223, 623>>

WoySin ==
    <<0, 121, 239, 355, 465, 568, 663, 749, 823, 885, 935, 971, 993, 1000,
      993, 971, 935, 885, 823, 749, 663, 568, 465, 355, 239, 121, 0, -121,
      -239, -355, -465, -568, -663, -749, -823, -885, -935, -971, -993, -1000,
      -993, -971, -935, -885, -823, -749, -663, -568, -465, -355, -239, -121>>

WoyCos ==
    <<1000, 993, 971, 935, 885, 823, 749, 663, 568, 465, 355, 239, 121, 0,
      -121, -239, -355, -465, -568, -663, -749, -823, -885, -935, -971, -993,
      -1000, -993, -971, -935, -885, -823, -749, -663, -568, -465, -355, -239,
      -121, 0, 121, 239, 355, 465, 568, 663, 749, 823, 885, 935, 971, 993>>

TemporalKeys ==
    {"day_of_week_sin", "day_of_week_cos", "week_of_year_sin", "week_of_year_cos"}

\* The week counted within a calendar year of 365 days
ComputeTemporalFeaturesCalendar(d, start_day_of_week) ==
    LET day_of_week == (start_day_of_week + d) % 7
        week_of_year == ((d % 365) \div 7) % 52
    IN [day_of_week_sin |-> DowSin[day_of_week + 1],
        day_of_week_cos |-> DowCos[day_of_week + 1],
        week_of_year_sin |-> WoySin[week_of_year + 1],
        week_of_year_cos |-> WoyCos[week_of_year + 1]]

\* sin and cos in thousandths
ComputeTemporalFeatures(d, start_day_of_week) ==
    LET day_of_week == (start_day_of_week + d) % 7
        week_of_year == (d \div 7) % 52
    IN [day_of_week_sin |-> DowSin[day_of_week + 1],
        day_of_week_cos |-> DowCos[day_of_week + 1],
        week_of_year_sin |-> WoySin[week_of_year + 1],
        week_of_year_cos |-> WoyCos[week_of_year + 1]]

-----------------------------------------------------------------------------
(* MigraineSimulator.simulate_user: one iteration of the loop over days *)

\* The position of the last occurrence of name in feature_order
LastIndex(feature_order, name) ==
    CHOOSE i \in 1..Len(feature_order) :
        /\ feature_order[i] = name
        /\ \A j \in (i + 1)..Len(feature_order) : feature_order[j] # name

\* The feature columns of the record, then record.update(temporal_features)
RecordColumns(cfg, observations, temporal_features) ==
    [c \in {cfg.feature_order[i] : i \in 1..Len(cfg.feature_order)}
           \cup TemporalKeys |->
        IF c \in TemporalKeys THEN temporal_features[c]
        ELSE observations[LastIndex(cfg.feature_order, c)]]

SimulateDay(cfg, user_id, d, Zv, s) ==
    LET sampled == SampleObservations(cfg, s)
        evolved == EvolveLatentState(cfg, Zv, sampled.values, sampled.rng)
        migraine_prob == MigraineProbability(cfg, evolved.Z)
        s3 == RngNext(evolved.rng)
        migraine == IF Uniform01At(s3) < migraine_prob THEN 1 ELSE 0
        temporal_features == ComputeTemporalFeatures(d, 0)
    IN IF sampled.status # "ok"
       THEN [status |-> sampled.status, rng |-> sampled.rng]
       ELSE IF evolved.status # "ok"
       THEN [status |-> evolved.status, rng |-> evolved.rng]
       ELSE [status |-> "ok", rng |-> s3, Z |-> evolved.Z,
             record |-> [user_id |-> user_id, day |-> d, Z |-> evolved.Z,
                         migraine_prob |-> migraine_prob, migraine |-> migraine,
                         cols |-> RecordColumns(cfg, sampled.values,
                                                temporal_features)]]

\* A generator of the user's own, seeded from the seed and the user id
UserStartRngSubSeeded(s, seed, user_id) == CHOOSE x \in RandomState(seed + user_id + 1) : TRUE

\* The generator a user's simulation starts from: self.rng as the users
\* simulated before have left it
UserStartRng(s, seed, user_id) == s

\* Z = self.rng.randn(latent_dim) * 0.1
InitialLatentState(cfg, s) ==
    LET drawn == Randn(cfg.latent_dim, s)
    IN [rng |-> drawn.rng,
        Z |-> [i \in 1..cfg.latent_dim |-> DivRound(drawn.values[i] * 10, 100)]]

\* A loop that runs one day longer
HorizonPassed(d, horizon) == d > horizon

\* `for day in range(horizon)` is exhausted
HorizonReached(d, horizon) == d >= horizon

\* pd.concat(all_data, ignore_index=True)
RECURSIVE Concat(_)
Concat(frames) ==
    IF frames = <<>> THEN <<>> ELSE Head(frames) \o Concat(Tail(frames))

-----------------------------------------------------------------------------
(* Configurations *)

LatentDim == 4

Priors ==
    [stress_level |-> [dist |-> "normal", mu |-> 500, sigma |-> 200,
                       min |-> 300, max |-> 700],
     sleep_hours |-> [mu |-> 700, sigma |-> 100],
     steps |-> [dist |-> "lognormal", mu_ln |-> 100, sigma_ln |-> 50,
                min |-> 100, max |-> 400],
     screen_time |-> [dist |-> "uniform", min |-> 0, max |-> 400],
     alcohol |-> [dist |-> "exponential", mu_ln |-> 100, sigma_ln |-> 50,
                  min |-> 0, max |-> 300],
     caffeine |-> [dist |-> "exponential", mu_ln |-> 200],
     day_of_week_sin |-> [dist |-> "cyclical", min |-> -100, max |-> 100],
     pressure |-> [dist |-> "beta", mu |-> 100, sigma |-> 10],
     heart_rate |-> [dist |-> "normal", mu |-> 600]]

FeatureOrders ==
    {<<"stress_level", "steps">>,
     <<"screen_time", "day_of_week_sin">>,
     <<"alcohol", "unlisted">>,
     <<"sleep_hours", "caffeine">>,
     <<"sleep_hours", "pressure">>,
     <<"heart_rate">>}

Diagonal(n, v) == [i \in 1..n |-> [j \in 1..n |-> IF i = j THEN v ELSE 0]]

Dynamics(kind, n_features) ==
    IF kind = "frozen"
    THEN [A |-> Diagonal(LatentDim, 100),
          B |-> [i \in 1..LatentDim |-> [j \in 1..n_features |-> 0]],
          process_noise |-> [i \in 1..LatentDim |-> 0]]
    ELSE [A |-> [i \in 1..LatentDim |-> [j \in 1..LatentDim |->
                    IF i = j THEN 90 ELSE IF j = i + 1 THEN 5 ELSE 0]],
          B |-> [i \in 1..LatentDim |-> [j \in 1..n_features |->
                    IF (i + j) % 2 = 0 THEN 10 ELSE 5]],
          process_noise |-> <<10, 15, 5, 10>>]

Configs ==
    {[n_users |-> n, horizon |-> h, random_seed |-> seed,
      latent_dim |-> LatentDim,
      state_transition_matrix |-> Dynamics(kind, Len(fo)).A,
      input_matrix |-> Dynamics(kind, Len(fo)).B,
      process_noise |-> Dynamics(kind, Len(fo)).process_noise,
      migraine_weights |-> <<50, 40, 45, 35>>,
      migraine_bias |-> -180,
      feature_order |-> fo,
      priors |-> Priors] :
        n \in 1..MaxUsers, h \in 1..MaxHorizon, seed \in 0..MaxSeed,
        fo \in FeatureOrders, kind \in {"default", "frozen"}}

Runs == {1, 2}

\* The orders in which a caller of simulate_user can go through the users
UserOrders(n) ==
    {p \in [1..n -> 0..(n - 1)] : \A i, j \in 1..n : p[i] = p[j] => i = j}

-----------------------------------------------------------------------------
(* The simulator as a state machine: two runs from one configuration, the  *)
(* second constructed once the first has ended.                            *)

NoCall == [fn |-> "none"]

NoRet == [status |-> "none"]

\* No rate limiter is constructed
ServiceOff ==
    /\ limiter = [max_calls |-> 0, period |-> 0, calls |-> <<>>]
    /\ clock = 0
    /\ tasks = <<>>
    /\ completed = <<>>

\* No simulator constructed yet
InitRuns ==
    /\ rng = [r \in Runs |-> 0]
    /\ pc = [r \in Runs |-> "new"]
    /\ order = [r \in Runs |-> [via |-> "none", users |-> <<>>]]
    /\ idx = [r \in Runs |-> 0]
    /\ day = [r \in Runs |-> 0]
    /\ Z = [r \in Runs |-> <<>>]
    /\ records = [r \in Runs |-> <<>>]
    /\ all_data = [r \in Runs |-> <<>>]
    /\ df = [r \in Runs |-> <<>>]
    /\ raised = [r \in Runs |-> "none"]
    /\ log = [r \in Runs |-> <<>>]
    /\ ServiceOff

InitSim ==
    /\ config \in Configs
    /\ InitRuns

Init ==
    /\ InitSim
    /\ call = NoCall
    /\ ret = NoRet

\* MigraineSimulator(config)
Construct(r) ==
    /\ pc[r] = "new"
    /\ r = 2 => pc[1] \in {"done", "error"}
    /\ \E s \in RandomState(config.random_seed) : rng' = [rng EXCEPT ![r] = s]
    /\ pc' = [pc EXCEPT ![r] = "idle"]
    /\ UNCHANGED <<config, order, idx, day, Z, records, all_data, df, raised, log,
                   call, ret, svcVars>>

\* simulate_population() is called: for user_id in range(n_users)
SimulatePopulation(r) ==
    /\ pc[r] = "idle"
    /\ order' = [order EXCEPT ![r] = [via |-> "simulate_population",
                                      users |-> RangeSeq(config.n_users)]]
    /\ pc' = [pc EXCEPT ![r] = "loop"]
    /\ log' = [log EXCEPT ![r] = Append(@, "info")]
    /\ UNCHANGED <<config, rng, idx, day, Z, records, all_data, df, raised, call, ret, svcVars>>

\* A caller goes through the users itself, calling simulate_user(user_id)
\* for each in an order of its choice, and merges what the calls return
SimulateUsers(r) ==
    /\ pc[r] = "idle"
    /\ \E p \in UserOrders(config.n_users) :
          order' = [order EXCEPT ![r] = [via |-> "simulate_user", users |-> p]]
    /\ pc' = [pc EXCEPT ![r] = "loop"]
    /\ UNCHANGED <<config, rng, idx, day, Z, records, all_data, df, raised, log,
                   call, ret, svcVars>>

\* simulate_user(user_id) starts: Z drawn, records = []
BeginUser(r) ==
    /\ pc[r] = "loop"
    /\ idx[r] < Len(order[r].users)
    /\ LET user_id == order[r].users[idx[r] + 1]
           start == InitialLatentState(
                        config, UserStartRng(rng[r], config.random_seed, user_id))
       IN /\ rng' = [rng EXCEPT ![r] = start.rng]
          /\ Z' = [Z EXCEPT ![r] = start.Z]
          /\ log' = [log EXCEPT ![r] =
                        IF order[r].via = "simulate_population"
                           /\ (user_id + 1) % 1000 = 0
                        THEN Append(@, "info") ELSE @]
    /\ records' = [records EXCEPT ![r] = <<>>]
    /\ day' = [day EXCEPT ![r] = 0]
    /\ pc' = [pc EXCEPT ![r] = "days"]
    /\ UNCHANGED <<config, order, idx, all_data, df, raised, call, ret, svcVars>>

\* One iteration of `for day in range(self.config.horizon)`
Step(r) ==
    /\ pc[r] = "days"
    /\ ~HorizonReached(day[r], config.horizon)
    /\ LET user_id == order[r].users[idx[r] + 1]
           res == SimulateDay(config, user_id, day[r], Z[r], rng[r])
       IN IF res.status = "ok"
          THEN /\ rng' = [rng EXCEPT ![r] = res.rng]
               /\ Z' = [Z EXCEPT ![r] = res.Z]
               /\ records' = [records EXCEPT ![r] = Append(@, res.record)]
               /\ day' = [day EXCEPT ![r] = @ + 1]
               /\ pc' = pc
               /\ raised' = raised
          ELSE /\ rng' = [rng EXCEPT ![r] = res.rng]
               /\ pc' = [pc EXCEPT ![r] = "error"]
               /\ raised' = [raised EXCEPT ![r] = res.status]
               /\ UNCHANGED <<Z, records, day>>
    /\ UNCHANGED <<config, order, idx, all_data, df, log, call, ret, svcVars>>

\* simulate_user returns pd.DataFrame(records); the caller appends it
EndUser(r) ==
    /\ pc[r] = "days"
    /\ HorizonReached(day[r], config.horizon)
    /\ all_data' = [all_data EXCEPT ![r] = Append(@, records[r])]
    /\ idx' = [idx EXCEPT ![r] = @ + 1]
    /\ pc' = [pc EXCEPT ![r] = "loop"]
    /\ UNCHANGED <<config, rng, order, day, Z, records, df, raised, log, call, ret, svcVars>>

\* df = pd.concat(all_data, ignore_index=True)
Merge(r) ==
    /\ pc[r] = "loop"
    /\ idx[r] = Len(order[r].users)
    /\ df' = [df EXCEPT ![r] = Concat(all_data[r])]
    /\ pc' = [pc EXCEPT ![r] = "done"]
    /\ log' = [log EXCEPT ![r] = IF order[r].via = "simulate_population"
                                 THEN @ \o <<"info", "info">> ELSE @]
    /\ UNCHANGED <<config, rng, order, idx, day, Z, records, all_data, raised,
                   call, ret, svcVars>>

Next ==
    \E r \in Runs :
        \/ Construct(r)
        \/ SimulatePopulation(r)
        \/ SimulateUsers(r)
        \/ BeginUser(r)
        \/ Step(r)
        \/ EndUser(r)
        \/ Merge(r)

Spec == Init /\ [][Next]_vars

-----------------------------------------------------------------------------
(* Claims about the simulator *)

BothDone == pc[1] = "done" /\ pc[2] = "done"

\* The DataFrame simulate_user returned for user u in run r
UserFrame(r, u) ==
    all_data[r][CHOOSE i \in 1..Len(order[r].users) : order[r].users[i] = u]

\* A DataFrame without its user_id column
WithoutUserId(frame) ==
    [i \in 1..Len(frame) |-> [frame[i] EXCEPT !.user_id = 0]]

\* C1 as stated: the records of a user are the same in two runs from one
\* seed and one configuration, whatever the order in which each run
\* simulates the users.
C1_OrderIndependent ==
    BothDone =>
        \A u \in 0..(config.n_users - 1) : UserFrame(1, u) = UserFrame(2, u)

\* C1 as amended: there is no per-user sub-seed; all users draw from the one
\* generator seeded with the global seed, each continuing where the user
\* simulated before it stopped.  What a user gets is decided by its position
\* in the simulation order: the i-th simulated user of one run has the
\* values of the i-th simulated user of the other, whoever it is.
C1_PositionDecides ==
    BothDone =>
        \A i \in 1..config.n_users :
            WithoutUserId(all_data[1][i]) = WithoutUserId(all_data[2][i])

C1_Witness ==
    /\ BothDone
    /\ order[1].users # order[2].users
    /\ Len(df[2]) >= 2

DaysOf(frame, u) ==
    LET mine == SelectSeq(frame, LAMBDA rec : rec.user_id = u)
    IN [i \in 1..Len(mine) |-> mine[i].day]

\* C3: simulate_population emits n_users * horizon records; every user's
\* day indices are 0..horizon-1 in emission order; no (user_id, day) pair
\* occurs twice.
C3_RecordCount ==
    \A r \in Runs :
        (pc[r] = "done" /\ order[r].via = "simulate_population") =>
            /\ Len(df[r]) = config.n_users * config.horizon
            /\ \A u \in 0..(config.n_users - 1) :
                  DaysOf(df[r], u) = RangeSeq(config.horizon)
            /\ \A i, j \in 1..Len(df[r]) :
                  (df[r][i].user_id = df[r][j].user_id
                   /\ df[r][i].day = df[r][j].day) => i = j

C3_Witness ==
    /\ pc[1] = "done"
    /\ order[1].via = "simulate_population"
    /\ config.n_users >= 2
    /\ config.horizon >= 2
    /\ Len(df[1]) = config.n_users * config.horizon

-----------------------------------------------------------------------------
(* _sample_feature as a function of the prior and the generator state *)

SampleStates == 24

BoundPairs == {<<-100, 100>>, <<100, 300>>, <<300, 300>>, <<0, 1000>>}

\* What a prior can declare besides its distribution: nothing, one bound,
\* or both bounds with min <= max
BoundDecls ==
    {<<>>} \cup {[min |-> b[1], max |-> b[2]] : b \in BoundPairs}
           \cup {[min |-> 100], [max |-> 100]}

DistDecls ==
    {[dist |-> "normal", mu |-> m, sigma |-> sd] : m \in {0, 500}, sd \in {0, 200}}
    \cup {[mu |-> 200, sigma |-> 100]}
    \cup {[dist |-> "lognormal", mu_ln |-> m, sigma_ln |-> sd] :
             m \in {0, 100}, sd \in {50, 100}}
    \cup {[dist |-> "exponential", mu_ln |-> 300], [dist |-> "exponential"]}
    \cup {[dist |-> "cyclical"], [dist |-> "beta"], [dist |-> "normal", mu |-> 0],
          [dist |-> "uniform"], [dist |-> "lognormal", mu_ln |-> 0]}

SamplePriors ==
    {d @@ b : d \in DistDecls, b \in BoundDecls}

SimParked ==
    /\ config = [n_users |-> 0]
    /\ rng = [r \in Runs |-> 0]
    /\ pc = [r \in Runs |-> "off"]
    /\ order = [r \in Runs |-> [via |-> "none", users |-> <<>>]]
    /\ idx = [r \in Runs |-> 0]
    /\ day = [r \in Runs |-> 0]
    /\ Z = [r \in Runs |-> <<>>]
    /\ records = [r \in Runs |-> <<>>]
    /\ all_data = [r \in Runs |-> <<>>]
    /\ df = [r \in Runs |-> <<>>]
    /\ raised = [r \in Runs |-> "none"]
    /\ log = [r \in Runs |-> <<>>]

SimOff == SimParked /\ ServiceOff

InitSample ==
    /\ SimOff
    /\ call \in {[fn |-> "sample", feature_name |-> "feature", prior |-> p, rng |-> s] :
                    p \in SamplePriors, s \in 0..(SampleStates - 1)}
    /\ ret = NoRet

Sample ==
    /\ call.fn = "sample"
    /\ ret = NoRet
    /\ ret' = SampleFeature(call.feature_name, call.prior, call.rng)
    /\ UNCHANGED <<simVars, svcVars, call>>

SpecSample == InitSample /\ [][Sample]_vars

\* C4: a value sampled for a prior that declares min and max lies in
\* [min, max], whatever the distribution and the raw draw.
C4_WithinBounds ==
    (/\ call.fn = "sample"
     /\ ret.status = "ok"
     /\ Has(call.prior, "min")
     /\ Has(call.prior, "max")) =>
        /\ call.prior.min <= ret.value
        /\ ret.value <= call.prior.max

\* The raw draw fell outside the declared bounds and was clipped
C4_Witness ==
    /\ call.fn = "sample"
    /\ ret.status = "ok"
    /\ Has(call.prior, "min")
    /\ Has(call.prior, "max")
    /\ DistType(call.prior) \in {"lognormal", "exponential"}
    /\ RawValue(call.prior, ret.rng) > call.prior.max
    /\ ret.value = call.prior.max

-----------------------------------------------------------------------------
(* Tensors: [dim |-> 1, data |-> a row] or [dim |-> 2, data |-> rows].     *)
(* Indices into tensors are 0-based, as in the program.                    *)

MaxT == 3
MaxScore == 2
MaxK == 4

\* tensor.unsqueeze(0) when the tensor is one sequence
Rows(tensor) == IF tensor.dim = 1 THEN <<tensor.data>> ELSE tensor.data

\* The sequences of length n over the set S
SeqsOf(S, n) == [1..n -> S]

-----------------------------------------------------------------------------
(* torch.topk(k, dim=1) on one row *)

RECURSIVE TopKFrom(_, _, _)
\* The k largest of the positions in `remaining`, largest first; equal
\* elements come out in any order
TopKFrom(row, remaining, k) ==
    IF k = 0 THEN {<<>>}
    ELSE UNION {{<<i - 1>> \o rest : rest \in TopKFrom(row, remaining \ {i}, k - 1)} :
                  i \in {j \in remaining : \A m \in remaining : row[j] >= row[m]}}

RECURSIVE BottomKFrom(_, _, _)
BottomKFrom(row, remaining, k) ==
    IF k = 0 THEN {<<>>}
    ELSE UNION {{<<i - 1>> \o rest : rest \in BottomKFrom(row, remaining \ {i}, k - 1)} :
                  i \in {j \in remaining : \A m \in remaining : row[j] <= row[m]}}

\* The positions of a set in ascending order
RECURSIVE Ascending(_)
Ascending(S) ==
    IF S = {} THEN <<>>
    ELSE LET m == CHOOSE x \in S : \A y \in S : x <= y
         IN <<m>> \o Ascending(S \ {m})

\* torch.topk with largest=False
TopKSmallest(row, k) == BottomKFrom(row, 1..Len(row), k)

\* torch.topk with sorted=False, the positions in index order
TopKUnsorted(row, k) ==
    {Ascending({r[i] : i \in 1..Len(r)}) : r \in TopKFrom(row, 1..Len(row), k)}

\* The index sequences torch.topk can return for a row, 0 <= k <= len(row)
TopK(row, k) == TopKFrom(row, 1..Len(row), k)

\* The values at the indices
Gather(row, indices) == [i \in 1..Len(indices) |-> row[indices[i] + 1]]

-----------------------------------------------------------------------------
(* select_topk_hours *)

\* k passed on as given
NoClampK(k, size) == k

\* k = min(k, priority_scores.size(1))
ClampK(k, size) == Min2(k, size)

\* One choice of a result per row
RowChoices(rows, k) ==
    {c \in [1..Len(rows) -> UNION {TopK(rows[b], k) : b \in 1..Len(rows)}] :
        \A b \in 1..Len(rows) : c[b] \in TopK(rows[b], k)}

\* One element of each set of a sequence of sets
RECURSIVE ChoiceSeqs(_)
ChoiceSeqs(sets) ==
    IF sets = <<>> THEN {<<>>}
    ELSE {<<first>> \o rest : first \in Head(sets), rest \in ChoiceSeqs(Tail(sets))}

\* topk(k, dim=1) of scores [B][T][X]: for every b and x the k largest along
\* t, as indices [B][k][X]
TopKAlongDim1(data, k) ==
    LET X == Len(data[1][1])
        ColumnAt(b, x) == [t \in 1..Len(data[b]) |-> data[b][t][x]]
    IN {[b \in 1..Len(data) |-> [i \in 1..k |-> [x \in 1..X |-> c[b][x][i]]]] :
          c \in ChoiceSeqs([b \in 1..Len(data) |->
                   ChoiceSeqs([x \in 1..X |-> TopK(ColumnAt(b, x), k)])])}

\* What select_topk_hours(priority_scores, k, return_scores) can return.
\* priority_scores.size(1) raises IndexError for a tensor of rank 0; a
\* tensor of rank 3 is taken as it is and topk runs along its dimension 1.
SelectTopkHours(priority_scores, k, return_scores) ==
    LET rows == Rows(priority_scores)
        unbatched == priority_scores.dim = 1
        kk == ClampK(k, Len(rows[1]))
    IN IF priority_scores.dim = 0
       THEN {[status |-> "IndexError"]}
       ELSE IF kk < 0 \/ kk > Len(rows[1])
       THEN {[status |-> "RuntimeError"]}
       ELSE IF priority_scores.dim = 3
       THEN {[status |-> "ok",
              indices |-> c,
              scores |-> IF ~return_scores THEN "None"
                         ELSE [b \in 1..Len(rows) |-> [i \in 1..kk |->
                                  [x \in 1..Len(rows[1][1]) |->
                                      rows[b][c[b][i][x] + 1][x]]]]] :
                c \in TopKAlongDim1(rows, kk)}
       ELSE {[status |-> "ok",
              indices |-> IF unbatched THEN c[1] ELSE c,
              scores |-> IF ~return_scores THEN "None"
                         ELSE IF unbatched THEN Gather(rows[1], c[1])
                         ELSE [b \in 1..Len(rows) |-> Gather(rows[b], c[b])]] :
                c \in RowChoices(rows, kk)}

ScoreRows == UNION {SeqsOf(0..MaxScore, n) : n \in 1..MaxT}

ScoreTensors ==
    {[dim |-> 1, data |-> row] : row \in ScoreRows}
    \cup {[dim |-> 2, data |-> <<a, b>>] :
             a \in SeqsOf(0..MaxScore, 2), b \in SeqsOf(0..MaxScore, 2)}

InitSelect ==
    /\ SimOff
    /\ call \in {[fn |-> "select", priority_scores |-> s, k |-> k, return_scores |-> b] :
                    s \in ScoreTensors, k \in 0..MaxK, b \in BOOLEAN}
    /\ ret = NoRet

Select ==
    /\ call.fn = "select"
    /\ ret = NoRet
    /\ ret' \in SelectTopkHours(call.priority_scores, call.k, call.return_scores)
    /\ UNCHANGED <<simVars, svcVars, call>>

SpecSelect == InitSelect /\ [][Select]_vars

-----------------------------------------------------------------------------
(* Claims about select_topk_hours *)

Selected == call.fn = "select" /\ ret # NoRet

\* The rows of the scores and of the returned indices, row by row
SelRows == Rows(call.priority_scores)

SelIndices == IF call.priority_scores.dim = 1 THEN <<ret.indices>> ELSE ret.indices

IndexSet(ind) == {ind[i] : i \in 1..Len(ind)}

\* C5: select returns exactly min(k, len(scores)) pairwise distinct indices
\* of the sequence, each with a score >= that of every index not returned.
C5_TopKSet ==
    Selected =>
        /\ ret.status = "ok"
        /\ \A b \in 1..Len(SelRows) :
              LET row == SelRows[b]
                  ind == SelIndices[b]
              IN /\ Len(ind) = Min2(call.k, Len(row))
                 /\ IndexSet(ind) \subseteq 0..(Len(row) - 1)
                 /\ \A i, j \in 1..Len(ind) : ind[i] = ind[j] => i = j
                 /\ \A i \in IndexSet(ind) :
                       \A j \in (0..(Len(row) - 1)) \ IndexSet(ind) :
                           row[i + 1] >= row[j + 1]

\* k exceeds the length and is clamped
C5_Witness ==
    /\ Selected
    /\ ret.status = "ok"
    /\ call.priority_scores.dim = 1
    /\ call.k > Len(call.priority_scores.data)
    /\ Len(ret.indices) = Len(call.priority_scores.data)
    /\ Len(ret.indices) >= 2

\* C6 as stated: among equal scores the lower index is selected before,
\* and ranked ahead of, the higher one.
C6_LowestIndexFirst ==
    (Selected /\ ret.status = "ok") =>
        \A b \in 1..Len(SelRows) :
            LET row == SelRows[b]
                ind == SelIndices[b]
            IN /\ \A i, j \in 1..Len(ind) :
                     (i < j /\ row[ind[i] + 1] = row[ind[j] + 1]) => ind[i] < ind[j]
               /\ \A i \in IndexSet(ind) :
                     \A j \in (0..(Len(row) - 1)) \ IndexSet(ind) :
                         row[i + 1] = row[j + 1] => i < j

\* The p-th largest value of a row
NthLargest(row, p) ==
    CHOOSE v \in {row[j] : j \in 1..Len(row)} :
        /\ Cardinality({j \in 1..Len(row) : row[j] > v}) < p
        /\ p <= Cardinality({j \in 1..Len(row) : row[j] >= v})

\* C6 as amended: select leaves ties to torch.topk, which fixes neither
\* which of the equal-scored indices is returned nor their order; what
\* (scores, k) determine is the sequence of the scores of the returned
\* indices, the min(k, len) largest in descending order.
C6_ScoresDetermined ==
    (Selected /\ ret.status = "ok") =>
        \A b \in 1..Len(SelRows) :
            LET row == SelRows[b]
                ind == SelIndices[b]
            IN /\ Len(ind) = Min2(call.k, Len(row))
               /\ \A p \in 1..Len(ind) : row[ind[p] + 1] = NthLargest(row, p)

\* A tie across the cut: an index is returned and a lower one with the
\* same score is not
C6_Witness ==
    /\ Selected
    /\ ret.status = "ok"
    /\ call.priority_scores.dim = 1
    /\ \E i \in IndexSet(ret.indices) :
          \E j \in (0..(Len(call.priority_scores.data) - 1)) \ IndexSet(ret.indices) :
              /\ call.priority_scores.data[i + 1] = call.priority_scores.data[j + 1]
              /\ j < i

\* C7: the returned indices are in descending order of score, and with
\* return_scores the returned scores are the scores at the returned
\* indices, in that order.
C7_Descending ==
    (Selected /\ ret.status = "ok") =>
        /\ \A b \in 1..Len(SelRows) :
              \A i \in 1..(Len(SelIndices[b]) - 1) :
                  SelRows[b][SelIndices[b][i] + 1] >= SelRows[b][SelIndices[b][i + 1] + 1]
        /\ call.return_scores =>
              LET sc == IF call.priority_scores.dim = 1 THEN <<ret.scores>>
                        ELSE ret.scores
              IN \A b \in 1..Len(SelRows) : sc[b] = Gather(SelRows[b], SelIndices[b])

C7_Witness ==
    /\ Selected
    /\ ret.status = "ok"
    /\ call.return_scores
    /\ call.priority_scores.dim = 2
    /\ Len(ret.indices[1]) = 2
    /\ ret.scores[1][1] > ret.scores[1][2]
    /\ ret.indices[1][1] > ret.indices[1][2]

-----------------------------------------------------------------------------
(* evaluate_policy *)

MaxSel == 3

\* A mask that adds 1.0 for every occurrence of an index
SelectedMaskCounting(selected, T) ==
    [t \in 1..T |-> Cardinality({i \in 1..Len(selected) : selected[i] = t - 1})]

\* selected_mask[i, selected_indices[i]] = 1.0: one row of the mask
SelectedMask(selected, T) ==
    [t \in 1..T |-> IF \E i \in 1..Len(selected) : selected[i] = t - 1 THEN 1 ELSE 0]

\* (selected_mask * true_important_hours).sum(dim=1) for one row
Correct(selected, truth) ==
    SumSeq([t \in 1..Len(truth) |-> SelectedMask(selected, Len(truth))[t] * truth[t]])

\* evaluate_policy(selected_indices, true_important_hours, k): the mean
\* over the batch of correct / k, as the fraction num / den
EvaluatePolicy(selected_indices, true_important_hours, k) ==
    LET sel == Rows(selected_indices)
        truth == IF selected_indices.dim = 1 THEN <<true_important_hours.data>>
                 ELSE true_important_hours.data
        B == Len(truth)
        kk == IF k.given THEN k.value ELSE Len(sel[1])
    IN [status |-> "ok",
        num |-> SumSeq([i \in 1..B |-> Correct(sel[i], truth[i])]),
        den |-> kk * B]

\* call is a call of evaluate_policy: on one sequence of T hours, or on a
\* batch of two sequences of two hours
EvaluateCalls ==
    \/ \E T \in 1..MaxT :
          \E s \in UNION {SeqsOf(0..(T - 1), n) : n \in 1..MaxSel},
             m \in SeqsOf({0, 1}, T),
             k \in {[given |-> FALSE, value |-> 0]}
                   \cup {[given |-> TRUE, value |-> v] : v \in 1..MaxK} :
             call = [fn |-> "evaluate",
                     selected_indices |-> [dim |-> 1, data |-> s],
                     true_important_hours |-> [dim |-> 1, data |-> m],
                     k |-> k]
    \/ \E s1 \in SeqsOf(0..1, 2), s2 \in SeqsOf(0..1, 2),
          m1 \in SeqsOf({0, 1}, 2), m2 \in SeqsOf({0, 1}, 2),
          k \in {[given |-> FALSE, value |-> 0], [given |-> TRUE, value |-> 2]} :
          call = [fn |-> "evaluate",
                  selected_indices |-> [dim |-> 2, data |-> <<s1, s2>>],
                  true_important_hours |-> [dim |-> 2, data |-> <<m1, m2>>],
                  k |-> k]

InitEvaluate ==
    /\ SimOff
    /\ EvaluateCalls
    /\ ret = NoRet

Evaluate ==
    /\ call.fn = "evaluate"
    /\ ret = NoRet
    /\ ret' = EvaluatePolicy(call.selected_indices, call.true_important_hours, call.k)
    /\ UNCHANGED <<simVars, svcVars, call>>

SpecEvaluate == InitEvaluate /\ [][Evaluate]_vars

Evaluated == call.fn = "evaluate" /\ ret # NoRet

EvalSel == Rows(call.selected_indices)

EvalTruth == Rows(call.true_important_hours)

EvalK == IF call.k.given THEN call.k.value ELSE Len(EvalSel[1])

Support(mask) == {t \in 0..(Len(mask) - 1) : mask[t + 1] = 1}

\* C9: for selected indices within the sequence, a binary mask and k >= 1
\* (given or inferred), evaluate returns a value in [0, 1].
C9_InUnitInterval ==
    Evaluated => (0 <= ret.num /\ ret.num <= ret.den)

\* Every selected index of every row is in the support of its mask, and
\* the support has at least k elements
AllHit ==
    \A b \in 1..Len(EvalSel) :
        /\ IndexSet(EvalSel[b]) \subseteq Support(EvalTruth[b])
        /\ Cardinality(Support(EvalTruth[b])) >= EvalK

-----------------------------------------------------------------------------
(* compute_priority_scores.  Tensors of float32; values in units of 1e-8,  *)
(* posterior means, weights and the bias in whole units.                   *)

One8 == 100000000

\* a * b / 1e8 for fixed point a, b (rounded towards zero)
FxMul8(a, b) ==
    LET x == Abs(a)
        y == Abs(b)
        x1 == x \div 10000
        x0 == x % 10000
        y1 == y \div 10000
        y0 == y % 10000
        m == x1 * y1 + (x1 * y0 + x0 * y1 + (x0 * y0) \div 10000) \div 10000
    IN IF (a >= 0) = (b >= 0) THEN m ELSE -m

SigmoidTable32 ==
    [x \in -20..20 |->
        CASE x = -20 -> 0 [] x = -19 -> 1 [] x = -18 -> 2 [] x = -17 -> 4
          [] x = -16 -> 11 [] x = -15 -> 31 [] x = -14 -> 83
          [] x = -13 -> 226 [] x = -12 -> 614 [] x = -11 -> 1670
          [] x = -10 -> 4540 [] x = -9 -> 12339 [] x = -8 -> 33535
          [] x = -7 -> 91105 [] x = -6 -> 247262 [] x = -5 -> 669285
          [] x = -4 -> 1798621 [] x = -3 -> 4742587 [] x = -2 -> 11920292
          [] x = -1 -> 26894143 [] x = 0 -> 50000000 [] x = 1 -> 73105860
          [] x = 2 -> 88079709 [] x = 3 -> 95257413 [] x = 4 -> 98201376
          [] x = 5 -> 99330717 [] x = 6 -> 99752736 [] x = 7 -> 99908894
          [] x = 8 -> 99966466 [] x = 9 -> 99987662 [] x = 10 -> 99995458
          [] x = 11 -> 99998331 [] x = 12 -> 99999386 [] x = 13 -> 99999774
          [] x = 14 -> 99999917 [] x = 15 -> 99999970 [] x = 16 -> 99999988
          [] x = 17 -> 99999994 [] x = 18 -> 100000000
          [] x = 19 -> 100000000
          [] OTHER -> 100000000]

\* torch.sigmoid on a float32 logit in whole units: 1.0 from 18 on
Sigmoid32(logit) ==
    IF logit >= 20 THEN One8 ELSE IF logit <= -20 THEN 0 ELSE SigmoidTable32[logit]

\* torch.log at the arguments p + eps and 1 - p + eps can take
Ln8(x) ==
    CASE x = 100 -> -1381551056 [] x = 101 -> -1380556023
      [] x = 102 -> -1379570793 [] x = 104 -> -1377628984
      [] x = 106 -> -1375724165 [] x = 111 -> -1371115054
      [] x = 112 -> -1370218187 [] x = 130 -> -1355314629
      [] x = 131 -> -1354548342 [] x = 183 -> -1321119459
      [] x = 326 -> -1263378336 [] x = 714 -> -1184979778
      [] x = 1769 -> -1094251105 [] x = 1770 -> -1094194592
      [] x = 4640 -> -997821110 [] x = 4642 -> -997778016
      [] x = 12438 -> -899216916 [] x = 12439 -> -899208877
      [] x = 33634 -> -799738800 [] x = 33635 -> -799735827
      [] x = 91205 -> -699981574 [] x = 91206 -> -699980478
      [] x = 247362 -> -600207261 [] x = 247364 -> -600206453
      [] x = 669383 -> -500656907 [] x = 669385 -> -500656608
      [] x = 1798721 -> -401809433 [] x = 1798724 -> -401809266
      [] x = 4742687 -> -304856633 [] x = 11920391 -> -212691972
      [] x = 11920392 -> -212691964 [] x = 26894240 -> -131325805
      [] x = 26894243 -> -131325794 [] x = 50000100 -> -69314518
      [] x = 73105957 -> -31326033 [] x = 73105960 -> -31326029
      [] x = 88079808 -> -12692687 [] x = 88079809 -> -12692686
      [] x = 95257513 -> -4858630 [] x = 98201476 -> -1814894
      [] x = 98201479 -> -1814891 [] x = 99330815 -> -671434
      [] x = 99330817 -> -671432 [] x = 99752836 -> -247470
      [] x = 99752838 -> -247468 [] x = 99908994 -> -91047
      [] x = 99908995 -> -91046 [] x = 99966565 -> -33441
      [] x = 99966566 -> -33440 [] x = 99987761 -> -12240
      [] x = 99987762 -> -12239 [] x = 99995558 -> -4442
      [] x = 99995560 -> -4440 [] x = 99998430 -> -1570
      [] x = 99998431 -> -1569 [] x = 99999486 -> -514
      [] x = 99999874 -> -126 [] x = 100000017 -> 17 [] x = 100000069 -> 69
      [] x = 100000070 -> 70 [] x = 100000088 -> 88 [] x = 100000089 -> 89
      [] x = 100000094 -> 94 [] x = 100000096 -> 96 [] x = 100000098 -> 98
      [] x = 100000099 -> 99 [] x = 100000100 -> 100

\* eps = 1e-6
Eps8 == 100

\* -(p * log(p + eps) + (1 - p) * log(1 - p + eps))
Entropy(p) ==
    -(FxMul8(p, Ln8(p + Eps8)) + FxMul8(One8 - p, Ln8(One8 - p + Eps8)))

\* torch.norm(migraine_weights)
WeightNorm(w) == ISqrtBetween(Dot(w, w) * One8, 0, 46340) * 10000

\* The priority score of one time step, in units of 1e-9 (the lambdas are
\* in tenths)
PriorityAt(mean_t, std_t, w, bias, l1, l2, l3) ==
    LET p == Sigmoid32(Dot(mean_t, w) + bias)
        entropy == Entropy(p)
        uncertainty == DivRound(SumSeq(std_t), Len(std_t))
        gradient_magnitude == FxMul8(FxMul8(WeightNorm(w), p), One8 - p)
    IN l1 * entropy + l2 * uncertainty + l3 * gradient_magnitude

\* Only the first sequence of a batch is kept
BatchesFirst(tensor) == <<IF tensor.dim = 2 THEN tensor.data ELSE tensor.data[1]>>

\* posterior_mean.unsqueeze(0) when posterior_mean.dim() == 2
Batches(tensor) == IF tensor.dim = 2 THEN <<tensor.data>> ELSE tensor.data

\* The index into a dimension of the given size that broadcasting reads
\* for index i of the result
BroadcastIndex(i, size) == IF size = 1 THEN 1 ELSE i

\* Two sizes of one dimension that broadcast together
Broadcastable(m, n) == m = n \/ m = 1 \/ n = 1

\* posterior_mean of [T, z_dim] or [B, T, z_dim], posterior_std of rank 2
\* or 3, migraine_weights of rank 1.  `B, T, z_dim = posterior_mean.shape`
\* raises ValueError for another rank, the product with the weights
\* RuntimeError when their length is not z_dim, and the sum of the three
\* terms RuntimeError when the mean of posterior_std over its last
\* dimension does not broadcast with [B, T].
ComputePriorityScores(posterior_mean, posterior_std, w, bias, l1, l2, l3) ==
    LET unbatched == posterior_mean.dim = 2
        mean == Batches(posterior_mean)
        std == Batches(posterior_std)
        B == Len(mean)
        T == Len(mean[1])
        rows == Max2(B, Len(std))
        steps == Max2(T, Len(std[1]))
        scores == [b \in 1..rows |-> [t \in 1..steps |->
                      PriorityAt(mean[BroadcastIndex(b, B)][BroadcastIndex(t, T)],
                                 std[BroadcastIndex(b, Len(std))]
                                    [BroadcastIndex(t, Len(std[1]))],
                                 w, bias, l1, l2, l3)]]
    IN IF posterior_mean.dim \notin {2, 3}
       THEN [status |-> "ValueError"]
       ELSE IF Len(w) # Len(mean[1][1])
       THEN [status |-> "RuntimeError"]
       ELSE IF ~(Broadcastable(B, Len(std)) /\ Broadcastable(T, Len(std[1])))
       THEN [status |-> "RuntimeError"]
       ELSE [status |-> "ok",
             priority_scores |->
                 IF unbatched /\ posterior_std.dim = 2
                 THEN [dim |-> 1, data |-> scores[1]]
                 ELSE [dim |-> 2, data |-> scores]]

ScoreMaxT == 2

MeanValues == {-9, 0, 9}

\* Posterior means of z_dim = 2
MeanSteps == SeqsOf(MeanValues, 2)

\* Posterior stds: 0, or 0.5 in both dimensions
StdSteps == {<<0, 0>>, <<50000000, 50000000>>}

Posteriors ==
    UNION {{[mean |-> [dim |-> 2, data |-> m], std |-> [dim |-> 2, data |-> s]] :
               m \in SeqsOf(MeanSteps, T), s \in SeqsOf(StdSteps, T)} :
             T \in 1..ScoreMaxT}
    \cup {[mean |-> [dim |-> 3, data |-> <<<<m1>>, <<m2>>>>],
           std |-> [dim |-> 3, data |-> <<<<s1>>, <<s2>>>>]] :
             m1 \in MeanSteps, m2 \in MeanSteps, s1 \in StdSteps, s2 \in StdSteps}
    \cup {[mean |-> [dim |-> 3, data |-> <<m>>], std |-> [dim |-> 3, data |-> <<s>>]] :
             m \in SeqsOf(MeanSteps, ScoreMaxT), s \in SeqsOf(StdSteps, ScoreMaxT)}

\* call is a call of compute_priority_scores
ScoreCalls ==
    \E q \in Posteriors, w \in {<<1, 1>>, <<1, 0>>}, b \in {-2, 0},
       l \in {<<10, 5, 3>>, <<10, 0, 0>>} :
        call = [fn |-> "score", posterior_mean |-> q.mean, posterior_std |-> q.std,
                migraine_weights |-> w, migraine_bias |-> b,
                lambda1 |-> l[1], lambda2 |-> l[2], lambda3 |-> l[3]]

InitScore ==
    /\ SimOff
    /\ ScoreCalls
    /\ ret = NoRet

Score ==
    /\ call.fn = "score"
    /\ ret = NoRet
    /\ ret' = ComputePriorityScores(call.posterior_mean, call.posterior_std,
                                    call.migraine_weights, call.migraine_bias,
                                    call.lambda1, call.lambda2, call.lambda3)
    /\ UNCHANGED <<simVars, svcVars, call>>

SpecScore == InitScore /\ [][Score]_vars

\* C8: for finite posterior mean and std, weights and bias, and
\* non-negative lambdas, every priority score is >= 0.
C8_NonNegative ==
    (call.fn = "score" /\ ret # NoRet) =>
        \A b \in 1..Len(Rows(ret.priority_scores)) :
            \A t \in 1..Len(Rows(ret.priority_scores)[b]) :
                Rows(ret.priority_scores)[b][t] >= 0

\* The call of the scorer on sequence b of the batch alone
ScoredAlone(b) ==
    ComputePriorityScores([dim |-> 2, data |-> call.posterior_mean.data[b]],
                          [dim |-> 2, data |-> call.posterior_std.data[b]],
                          call.migraine_weights, call.migraine_bias,
                          call.lambda1, call.lambda2, call.lambda3)

\* C11: an input of shape [T, d] gives scores of shape [T], an input of
\* shape [B, T, d] gives [B, T], and row b of the batched result is the
\* result of scoring sequence b alone.
C11_BatchEquivalence ==
    (call.fn = "score" /\ ret # NoRet) =>
        LET mean == call.posterior_mean
            scores == ret.priority_scores
        IN IF mean.dim = 2
           THEN scores.dim = 1 /\ Len(scores.data) = Len(mean.data)
           ELSE /\ scores.dim = 2
                /\ Len(scores.data) = Len(mean.data)
                /\ \A b \in 1..Len(mean.data) :
                      /\ Len(scores.data[b]) = Len(mean.data[b])
                      /\ scores.data[b] = ScoredAlone(b).priority_scores.data

\* A batch of two sequences that score differently
C11_Witness ==
    /\ call.fn = "score"
    /\ ret # NoRet
    /\ call.posterior_mean.dim = 3
    /\ Len(call.posterior_mean.data) = 2
    /\ ret.priority_scores.data[1] # ret.priority_scores.data[2]
    /\ ret.priority_scores.data[2] = ScoredAlone(2).priority_scores.data

-----------------------------------------------------------------------------
(* MigraineSimulator.split_train_val.  train_split in hundredths.          *)

MaxSplitUsers == 4
MaxSplitHorizon == 2

TrainSplits == {0, 25, 33, 50, 58, 80, 100}

\* int(self.config.n_users * self.config.train_split)
NTrainUsers(n_users, train_split) == (n_users * train_split) \div 100

\* A comparison that lets the boundary user in
InTrainInclusive(user_id, n_train_users) == user_id <= n_train_users

\* df['user_id'] < n_train_users
InTrain(user_id, n_train_users) == user_id < n_train_users

\* df['user_id'] >= n_train_users
InVal(user_id, n_train_users) == user_id >= n_train_users

SplitTrainVal(cfg, frame) ==
    LET n_train_users == NTrainUsers(cfg.n_users, cfg.train_split)
    IN [status |-> "ok",
        train_df |-> SelectSeq(frame, LAMBDA rec : InTrain(rec.user_id, n_train_users)),
        val_df |-> SelectSeq(frame, LAMBDA rec : InVal(rec.user_id, n_train_users)),
        logged |-> <<"info", "info">>]

\* The record of a user's day; the value stands for the other columns
DailyRecord(user_id, d) ==
    [user_id |-> user_id, day |-> d, value |-> 10 * user_id + d]

\* The dataset of n_users over horizon days, user by user as
\* simulate_population merges it, or re-sorted day by day
Dataset(n_users, horizon, sorted_by) ==
    [i \in 1..(n_users * horizon) |->
        IF sorted_by = "user"
        THEN DailyRecord((i - 1) \div horizon, (i - 1) % horizon)
        ELSE DailyRecord((i - 1) % n_users, (i - 1) \div n_users)]

SplitCalls ==
    {[fn |-> "split",
      config |-> [n_users |-> n, horizon |-> h, train_split |-> f],
      df |-> Dataset(n, h, sorted_by)] :
        n \in 1..MaxSplitUsers, h \in 1..MaxSplitHorizon, f \in TrainSplits,
        sorted_by \in {"user", "day"}}

InitSplit ==
    /\ SimOff
    /\ call \in SplitCalls
    /\ ret = NoRet

Split ==
    /\ call.fn = "split"
    /\ ret = NoRet
    /\ ret' = SplitTrainVal(call.config, call.df)
    /\ UNCHANGED <<simVars, svcVars, call>>

SpecSplit == InitSplit /\ [][Split]_vars

\* The records of a DataFrame
RecordsOf(frame) == {frame[i] : i \in 1..Len(frame)}

\* A DataFrame keeps the relative order its records have in df
KeepsOrder(part, frame) ==
    \A i, j \in 1..Len(part) :
        i < j => \E a, b \in 1..Len(frame) :
                    a < b /\ frame[a] = part[i] /\ frame[b] = part[j]

-----------------------------------------------------------------------------
(* Errors of the simulator *)

\* The positions of feature_order whose prior declares a kind that is none
\* of normal, lognormal, uniform, exponential, cyclical
UnknownKindAt(cfg) ==
    {i \in 1..Len(cfg.feature_order) :
        /\ cfg.feature_order[i] \in DOMAIN cfg.priors
        /\ "dist" \in DOMAIN cfg.priors[cfg.feature_order[i]]
        /\ cfg.priors[cfg.feature_order[i]].dist \notin
              {"normal", "lognormal", "uniform", "exponential", "cyclical"}}

\* C13: sampling a feature of an unknown distribution kind raises an error
\* (ValueError), and the step that asked for it emits no record: the run
\* never holds a record, never completes, and ends with that error.
C13_UnknownKindFatal ==
    UnknownKindAt(config) # {} =>
        \A r \in Runs :
            /\ records[r] = <<>>
            /\ all_data[r] = <<>>
            /\ df[r] = <<>>
            /\ pc[r] # "done"
            /\ raised[r] \in {"none", "ValueError"}
            /\ pc[r] = "error" => raised[r] = "ValueError"
            /\ (pc[r] = "days" /\ ~HorizonReached(day[r], config.horizon)) =>
                  SimulateDay(config, order[r].users[idx[r] + 1], day[r],
                              Z[r], rng[r]).status = "ValueError"

\* The first step of a run has sampled a known feature and then failed on
\* the unknown one
C13_Witness ==
    /\ UnknownKindAt(config) = {2}
    /\ pc[1] = "error"
    /\ raised[1] = "ValueError"
    /\ records[1] = <<>>

-----------------------------------------------------------------------------
(* Missing parameters of a prior *)

\* The prior lacks its kind or a parameter of its kind: mu and sigma for
\* normal, mu_ln and sigma_ln for lognormal, min and max for uniform, the
\* scale mu_ln for exponential
MissingRequired(prior) ==
    \/ ~Has(prior, "dist")
    \/ prior.dist = "normal" /\ ~({"mu", "sigma"} \subseteq DOMAIN prior)
    \/ prior.dist = "lognormal" /\ ~({"mu_ln", "sigma_ln"} \subseteq DOMAIN prior)
    \/ prior.dist = "uniform" /\ ~({"min", "max"} \subseteq DOMAIN prior)
    \/ prior.dist = "exponential" /\ ~Has(prior, "mu_ln")

\* C14 as stated: sampling a prior that lacks its kind or a parameter of
\* its kind raises an error; no default stands in for what is missing.
C14_MissingParameterFatal ==
    (call.fn = "sample" /\ ret # NoRet /\ MissingRequired(call.prior)) =>
        ret.status # "ok"

\* The same prior with the key added
WithKey(prior, key, value) == [k \in DOMAIN prior \cup {key} |->
                                 IF k = key THEN value ELSE prior[k]]

\* C14 as amended: a missing mu or sigma of a normal prior, mu_ln or
\* sigma_ln of a lognormal prior, min or max of a uniform prior raises
\* KeyError and no value is returned.  A missing scale of an exponential
\* prior is replaced by 1.0, and a prior without a kind is sampled as
\* normal (and so needs mu and sigma): both return what the prior with the
\* default written out returns.
C14_DefaultsForKindAndScale ==
    (call.fn = "sample" /\ ret # NoRet) =>
        LET prior == call.prior
        IN /\ (/\ Has(prior, "dist")
               /\ \/ prior.dist = "normal" /\ ~({"mu", "sigma"} \subseteq DOMAIN prior)
                  \/ prior.dist = "lognormal"
                       /\ ~({"mu_ln", "sigma_ln"} \subseteq DOMAIN prior)
                  \/ prior.dist = "uniform" /\ ~({"min", "max"} \subseteq DOMAIN prior))
                 => ret.status = "KeyError" /\ "value" \notin DOMAIN ret
           /\ (Has(prior, "dist") /\ prior.dist = "exponential" /\ ~Has(prior, "mu_ln"))
                 => /\ ret.status = "ok"
                    /\ ret = SampleFeature(call.feature_name,
                                           WithKey(prior, "mu_ln", 100), call.rng)
           /\ ~Has(prior, "dist")
                 => /\ ret = SampleFeature(call.feature_name,
                                           WithKey(prior, "dist", "normal"), call.rng)
                    /\ ret.status = IF {"mu", "sigma"} \subseteq DOMAIN prior
                                    THEN "ok" ELSE "KeyError"

\* An exponential prior without its scale has been sampled, and the value
\* is a draw of scale 1.0
C14_Witness ==
    /\ call.fn = "sample"
    /\ call.prior = [dist |-> "exponential"]
    /\ ret.status = "ok"
    /\ ret.value >= 100

-----------------------------------------------------------------------------
(* A feature of feature_order without a prior *)

MissingPriorAt(cfg) ==
    {i \in 1..Len(cfg.feature_order) : cfg.feature_order[i] \notin DOMAIN cfg.priors}

\* Every feature of feature_order that has a prior has one of a known
\* kind, with the parameters sampling and normalisation read
OtherPriorsSound(cfg) ==
    \A i \in 1..Len(cfg.feature_order) :
        cfg.feature_order[i] \in DOMAIN cfg.priors =>
            LET prior == cfg.priors[cfg.feature_order[i]]
            IN /\ DistType(prior) \in
                     {"normal", "lognormal", "uniform", "exponential", "cyclical"}
               /\ RequiredKeys(DistType(prior)) \subseteq DOMAIN prior
               /\ NormalizeKeys(prior) \subseteq DOMAIN prior

\* The messages of level WARNING a run has logged
Warnings(r) == {i \in 1..Len(log[r]) : log[r][i] = "warning"}

\* C15 as stated: with a feature of feature_order missing from the priors
\* the run does not abort, and once a step has sampled the slot a warning
\* has been logged.
C15_FallbackWithWarning ==
    (MissingPriorAt(config) # {} /\ OtherPriorsSound(config)) =>
        \A r \in Runs :
            /\ raised[r] = "none"
            /\ (records[r] # <<>> \/ df[r] # <<>>) => Warnings(r) # {}

\* C15 as amended: the run does not abort and no warning is logged; every
\* step samples the slot from the standard normal, evolves Z and appends
\* its record.
C15_SilentFallback ==
    (MissingPriorAt(config) # {} /\ OtherPriorsSound(config)) =>
        \A r \in Runs :
            /\ raised[r] = "none"
            /\ pc[r] # "error"
            /\ Warnings(r) = {}
            /\ pc[r] = "days" =>
                  /\ Len(records[r]) = day[r]
                  /\ day[r] > 0 => records[r][day[r]].Z = Z[r]
            /\ \A n \in 1..Len(records[r]) :
                  /\ records[r][n].day = n - 1
                  /\ \A i \in MissingPriorAt(config) :
                        records[r][n].cols[config.feature_order[i]]
                           \in {StdNormalTable[j] : j \in 1..Len(StdNormalTable)}
            /\ pc[r] = "done" => Len(df[r]) = config.n_users * config.horizon

\* A run over a feature order with a missing prior has completed two days
C15_Witness ==
    /\ MissingPriorAt(config) # {}
    /\ OtherPriorsSound(config)
    /\ pc[1] = "done"
    /\ config.horizon >= 2
    /\ Len(df[1]) >= 2
    /\ df[1][1].Z # df[1][2].Z

-----------------------------------------------------------------------------
(* load_config: the input matrix B, built column by column from the        *)
(* category of the feature in that position.  A SimulatorConfig can also   *)
(* be constructed with a B built for another feature list.                 *)

\* feature_metadata: variable -> category
FeatureCategory(feature_name) ==
    CASE feature_name = "stress_level" -> "Stress"
      [] feature_name = "sleep_hours" -> "Sleep"
      [] feature_name = "screen_time" -> "Environmental"
      [] OTHER -> "Unknown"

\* config_dict['input_weights'], centi
InputWeights == [stress |-> 10, sleep |-> 16, hormonal |-> 6, environmental |-> 8]

\* B = np.zeros((4, n_features)), then one column per feature
InputMatrix(feature_order) ==
    [row \in 1..LatentDim |-> [i \in 1..Len(feature_order) |->
        LET category == FeatureCategory(feature_order[i])
        IN CASE category = "Stress" -> IF row = 1 THEN InputWeights.stress ELSE 0
             [] category = "Sleep" -> IF row = 2 THEN InputWeights.sleep ELSE 0
             [] category = "Hormonal" -> IF row = 3 THEN InputWeights.hormonal ELSE 0
             [] category = "Environmental" ->
                    IF row = 4 THEN InputWeights.environmental ELSE 0
             [] OTHER -> InputWeights.environmental \div 2]]

\* Feature lists of a producer and of the consumer B was built for
ListedOrders ==
    {<<"stress_level", "sleep_hours">>, <<"sleep_hours", "stress_level">>,
     <<"stress_level">>, <<"stress_level", "sleep_hours", "screen_time">>,
     <<"stress_level", "steps">>}

\* Configurations whose input matrix was built for the list `consumer`
\* while observations are produced in the order `producer`
ConfigsOfTwoLists ==
    {[n_users |-> n, horizon |-> 1, random_seed |-> 0,
      latent_dim |-> LatentDim,
      state_transition_matrix |-> Dynamics("default", 1).A,
      input_matrix |-> InputMatrix(consumer),
      process_noise |-> Dynamics("default", 1).process_noise,
      migraine_weights |-> <<50, 40, 45, 35>>,
      migraine_bias |-> -180,
      feature_order |-> producer,
      priors |-> Priors] :
        n \in 1..MaxUsers, producer \in ListedOrders, consumer \in ListedOrders}

InitTwoLists ==
    /\ config \in ConfigsOfTwoLists
    /\ InitRuns
    /\ call = NoCall
    /\ ret = NoRet

SpecTwoLists == InitTwoLists /\ [][Next]_vars

\* B is not the matrix load_config builds for the producer's feature list
OrderMismatch == config.input_matrix # InputMatrix(config.feature_order)

LengthMismatch ==
    \E row \in 1..LatentDim :
        Len(config.input_matrix[row]) # Len(config.feature_order)

\* C16 as stated: when the feature list the observations are produced in
\* differs in order or length from the one the input matrix assumes, the
\* run stops with an error and no record is produced from the values.
C16_MismatchFatal ==
    OrderMismatch =>
        \A r \in Runs :
            /\ records[r] = <<>>
            /\ df[r] = <<>>
            /\ pc[r] # "done"

\* C16 as amended: a difference in length stops the run with an error
\* (ValueError of the product B @ u) before any record; a difference in
\* order alone is not detected, and the run completes with every value
\* weighted by the column in its position.
C16_OnlyLengthFatal ==
    /\ LengthMismatch =>
          \A r \in Runs :
              /\ records[r] = <<>>
              /\ df[r] = <<>>
              /\ pc[r] # "done"
              /\ raised[r] \in {"none", "ValueError"}
              /\ pc[r] = "error" => raised[r] = "ValueError"
    /\ (OrderMismatch /\ ~LengthMismatch) =>
          \A r \in Runs :
              /\ raised[r] = "none"
              /\ pc[r] # "error"
              /\ pc[r] = "days" => Len(records[r]) = day[r]
              /\ pc[r] = "done" => Len(df[r]) = config.n_users * config.horizon

\* Both runs over a reordered list of the same length have completed
C16_Witness ==
    /\ OrderMismatch
    /\ ~LengthMismatch
    /\ Len(config.feature_order) >= 2
    /\ pc[1] = "done"
    /\ pc[2] = "done"
    /\ df[2] # <<>>

-----------------------------------------------------------------------------
(* Configurations with a large bias of the migraine model *)

Biases == {-180, 2000, 4000, -72000}

ConfigsOfBiases ==
    {[n_users |-> n, horizon |-> h, random_seed |-> 0,
      latent_dim |-> LatentDim,
      state_transition_matrix |-> Dynamics("default", 2).A,
      input_matrix |-> Dynamics("default", 2).B,
      process_noise |-> Dynamics("default", 2).process_noise,
      migraine_weights |-> <<50, 40, 45, 35>>,
      migraine_bias |-> b,
      feature_order |-> <<"stress_level", "steps">>,
      priors |-> Priors] :
        n \in 1..MaxUsers, h \in 1..MaxHorizon, b \in Biases}

InitBiases ==
    /\ config \in ConfigsOfBiases
    /\ InitRuns
    /\ call = NoCall
    /\ ret = NoRet

SpecBiases == InitBiases /\ [][Next]_vars

\* The records run r holds: of the user being simulated, of the users
\* simulated, of the dataset
RecordsHeld(r) ==
    RecordsOf(records[r]) \cup RecordsOf(df[r])
    \cup UNION {RecordsOf(all_data[r][i]) : i \in 1..Len(all_data[r])}

\* C17 as stated: every migraine probability stored in a record is
\* strictly greater than 0 and strictly less than 1.
C17_StrictlyInside ==
    \A r \in Runs : \A rec \in RecordsHeld(r) :
        0 < rec.migraine_prob /\ rec.migraine_prob < 100000000

\* C17 as amended: every stored probability lies in the closed interval
\* [0, 1]; it is exactly 1 only for a logit of about 36.7 or more (where
\* 1 + exp(-logit) rounds to 1 in float64), exactly 0 only for a logit of
\* about -709.8 or less (where exp(-logit) overflows), and strictly inside
\* for the logits between; the outcome is then 1, respectively 0.
C17_ClosedInterval ==
    \A r \in Runs : \A rec \in RecordsHeld(r) :
        LET logit == Logit(config, rec.Z)
        IN /\ 0 <= rec.migraine_prob
           /\ rec.migraine_prob <= 100000000
           /\ rec.migraine_prob = 100000000 <=> logit >= 3674
           /\ rec.migraine_prob = 0 <=> logit <= -70979
           /\ rec.migraine_prob = 100000000 => rec.migraine = 1
           /\ rec.migraine_prob = 0 => rec.migraine = 0

\* A completed run holds a record with a probability of exactly 1
C17_Witness ==
    /\ pc[1] = "done"
    /\ \E rec \in RecordsOf(df[1]) :
          rec.migraine_prob = 100000000 /\ rec.migraine = 1

-----------------------------------------------------------------------------
(* The baseline policies: simulate_random_policy, simulate_fixed_policy    *)
(* and the fixed schedule of evaluate_policy_baselines.                    *)

MaxBatch == 2
MaxHours == 2

\* seq[:k]
Prefix(seq, k) ==
    SubSeq(seq, 1, IF k >= 0 THEN Min2(k, Len(seq)) ELSE Max2(Len(seq) + k, 0))

\* T draws from 0..T-1 with replacement
RandInt(T) == [1..T -> 0..(T - 1)]

\* The tensors torch.randperm(T) can return
RandPerm(T) ==
    {p \in [1..T -> 0..(T - 1)] : \A i, j \in 1..T : p[i] = p[j] => i = j}

\* What simulate_random_policy(T, k, batch_size) can return; torch.stack
\* rejects an empty list
SimulateRandomPolicy(T, k, batch_size) ==
    IF batch_size <= 0
    THEN {[status |-> "RuntimeError"]}
    ELSE {[status |-> "ok",
           indices |-> [b \in 1..batch_size |-> Prefix(perm[b], k)]] :
             perm \in [1..batch_size -> RandPerm(T)]}

\* A schedule cut to the hours of the day
HoursBelow(hours, T) == SelectSeq(hours, LAMBDA h : h < T)

\* torch.tensor(hours, dtype=torch.long); T is not read
HoursTensor(hours, T) == hours

\* simulate_fixed_policy(hours, T, batch_size)
SimulateFixedPolicy(hours, T, batch_size) ==
    LET indices == HoursTensor(hours, T)
    IN [status |-> "ok",
        indices |-> [b \in 1..Max2(batch_size, 0) |-> indices]]

\* fixed_hours of evaluate_policy_baselines: 8am, 12pm, 8pm
FixedHours == <<8, 12, 20>>

\* fixed_indices = torch.tensor(fixed_hours[:k])
FixedBaseline(fixed_hours, k) ==
    [status |-> "ok", indices |-> Prefix(fixed_hours, k)]

HourLists == UNION {SeqsOf(0..MaxT, n) : n \in 0..MaxHours}

PolicyCalls ==
    {[fn |-> "select", priority_scores |-> s, k |-> k, return_scores |-> FALSE] :
        s \in ScoreTensors, k \in 0..MaxK}
    \cup {[fn |-> "random", T |-> T, k |-> k, batch_size |-> n] :
             T \in 0..MaxT, k \in -1..MaxK, n \in 0..MaxBatch}
    \cup {[fn |-> "fixed", hours |-> h, T |-> T, batch_size |-> n] :
             h \in HourLists, T \in 1..MaxT, n \in 0..MaxBatch}
    \cup {[fn |-> "fixed_baseline", fixed_hours |-> FixedHours, k |-> k] :
             k \in 0..MaxK}

InitPolicies ==
    /\ SimOff
    /\ call \in PolicyCalls
    /\ ret = NoRet

Random ==
    /\ call.fn = "random"
    /\ ret = NoRet
    /\ ret' \in SimulateRandomPolicy(call.T, call.k, call.batch_size)
    /\ UNCHANGED <<simVars, svcVars, call>>

Fixed ==
    /\ call.fn = "fixed"
    /\ ret = NoRet
    /\ ret' = SimulateFixedPolicy(call.hours, call.T, call.batch_size)
    /\ UNCHANGED <<simVars, svcVars, call>>

FixedSchedule ==
    /\ call.fn = "fixed_baseline"
    /\ ret = NoRet
    /\ ret' = FixedBaseline(call.fixed_hours, call.k)
    /\ UNCHANGED <<simVars, svcVars, call>>

NextPolicies == Select \/ Random \/ Fixed \/ FixedSchedule

SpecPolicies == InitPolicies /\ [][NextPolicies]_vars

\* The number of time steps T of a policy call and the rows of indices it
\* returned
PolicyT ==
    IF call.fn = "select" THEN Len(Rows(call.priority_scores)[1]) ELSE call.T

PolicyRows ==
    IF call.fn = "select" /\ call.priority_scores.dim = 1
    THEN <<ret.indices>> ELSE ret.indices

\* C18: every selection policy (select_topk_hours, simulate_random_policy,
\* simulate_fixed_policy) returns at most T indices per row, each a time
\* index in [0, T), for any k and any configured hours.
C18_AtMostT ==
    (call.fn \in {"select", "random", "fixed"} /\ ret # NoRet /\ ret.status = "ok") =>
        \A b \in 1..Len(PolicyRows) :
            /\ Len(PolicyRows[b]) <= PolicyT
            /\ \A i \in 1..Len(PolicyRows[b]) :
                  0 <= PolicyRows[b][i] /\ PolicyRows[b][i] < PolicyT

\* C19: for 0 <= k <= T every row simulate_random_policy returns holds
\* exactly k pairwise-distinct indices of 0..T-1, one row per batch entry.
C19_WithoutReplacement ==
    (/\ call.fn = "random"
     /\ ret # NoRet
     /\ 0 <= call.k
     /\ call.k <= call.T
     /\ call.batch_size >= 1) =>
        /\ ret.status = "ok"
        /\ Len(ret.indices) = call.batch_size
        /\ \A b \in 1..Len(ret.indices) :
              /\ Len(ret.indices[b]) = call.k
              /\ Cardinality(IndexSet(ret.indices[b])) = call.k
              /\ IndexSet(ret.indices[b]) \subseteq 0..(call.T - 1)

\* Two rows of one batch drawn differently
C19_Witness ==
    /\ call.fn = "random"
    /\ ret # NoRet
    /\ call.batch_size = 2
    /\ call.k >= 2
    /\ call.k < call.T
    /\ ret.indices[1] # ret.indices[2]
    /\ IndexSet(ret.indices[1]) # IndexSet(ret.indices[2])

\* C20 as stated: the fixed schedule gives every row the configured hours
\* in configured order, truncated or padded to exactly k indices.
C20_ExactlyK ==
    /\ (call.fn = "fixed" /\ ret # NoRet) =>
          \A b \in 1..Len(ret.indices) : ret.indices[b] = call.hours
    /\ (call.fn = "fixed_baseline" /\ ret # NoRet) =>
          /\ Len(ret.indices) = call.k
          /\ \A i \in 1..Min2(call.k, Len(call.fixed_hours)) :
                ret.indices[i] = call.fixed_hours[i]

\* C20 as amended: simulate_fixed_policy gives each of the batch_size rows
\* all the configured hours in configured order, len(hours) indices
\* whatever T is; evaluate_policy_baselines takes the first k of its
\* hours, min(k, len(fixed_hours)) indices, and never pads.
C20_HoursAsConfigured ==
    /\ (call.fn = "fixed" /\ ret # NoRet) =>
          /\ Len(ret.indices) = call.batch_size
          /\ \A b \in 1..Len(ret.indices) : ret.indices[b] = call.hours
    /\ (call.fn = "fixed_baseline" /\ ret # NoRet) =>
          /\ Len(ret.indices) = Min2(call.k, Len(call.fixed_hours))
          /\ \A i \in 1..Len(ret.indices) : ret.indices[i] = call.fixed_hours[i]

\* A batch of rows with hours beyond T
C20_Witness ==
    /\ call.fn = "fixed"
    /\ ret # NoRet
    /\ call.batch_size = 2
    /\ Len(call.hours) = 2
    /\ call.hours[1] > call.hours[2]
    /\ call.hours[1] >= call.T
    /\ ret.indices[2] = call.hours

-----------------------------------------------------------------------------
(* Feature-level information gain: compute_feature_information_gain and    *)
(* get_priority_queries.  The model's outputs are inputs here: the         *)
(* gradient of the probability with respect to x, [B][T][F] in whole       *)
(* units, and the probability of each sequence, [B] in hundredths; gains   *)
(* are in units of 1e-4.  An optional argument is [given |-> FALSE] for     *)
(* None and [given |-> TRUE, value |-> v] otherwise.                       *)

None == [given |-> FALSE]

Some(v) == [given |-> TRUE, value |-> v]

MaxGainT == 2
MaxGainF == 2
MaxGainK == 3
MaxGainCells == 4

\* A default that takes every entry as missing
ZerosLike(x) == [b \in 1..Len(x) |-> [t \in 1..Len(x[b]) |->
                    [f \in 1..Len(x[b][t]) |-> 0]]]

\* torch.ones_like(x)
OnesLike(x) == [b \in 1..Len(x) |-> [t \in 1..Len(x[b]) |->
                   [f \in 1..Len(x[b][t]) |-> 1]]]

\* uncertainty = migraine_prob * (1 - migraine_prob)
Uncertainty(p) == p * (100 - p)

\* feature_gains of compute_feature_information_gain
ComputeFeatureInformationGain(gradients, migraine_prob, feature_availability) ==
    LET availability == IF ~feature_availability.given
                        THEN OnesLike(gradients) ELSE feature_availability.value
    IN [b \in 1..Len(gradients) |-> [t \in 1..Len(gradients[b]) |->
           [f \in 1..Len(gradients[b][t]) |->
               Abs(gradients[b][t][f]) * Uncertainty(migraine_prob[b])
               * (1 - availability[b][t][f])]]]

\* The largest element of a row
MaxOf(row) == CHOOSE v \in {row[i] : i \in 1..Len(row)} :
                  \A i \in 1..Len(row) : v >= row[i]

\* The first index of the smallest element
ArgMin(row) ==
    (CHOOSE i \in 1..Len(row) :
        /\ \A j \in 1..Len(row) : row[i] <= row[j]
        /\ \A j \in 1..(i - 1) : row[j] > row[i]) - 1

\* tensor.argmax(): the index of the first maximal value
ArgMax(row) ==
    (CHOOSE i \in 1..Len(row) :
        /\ \A j \in 1..Len(row) : row[i] >= row[j]
        /\ \A j \in 1..(i - 1) : row[j] < row[i]) - 1

\* feature_gains[b, :, feat_idx]
Column(gains, f) == [t \in 1..Len(gains) |-> gains[t][f]]

\* f"Feature_{i}"
DefaultName(i) == <<"Feature", i>>

FeatureName(feature_names, i) ==
    IF ~feature_names.given THEN DefaultName(i) ELSE feature_names.value[i + 1]

\* temporal_queries of one sequence with gains [T][F]
TemporalQueries(gains, feature_names, k_temporal) ==
    LET T == Len(gains)
        F == Len(gains[1])
        temporal_scores == [t \in 1..T |-> MaxOf(gains[t])]
    IN UNION {
         {[i \in 1..Len(top) |->
              [hour |-> top[i],
               score |-> temporal_scores[top[i] + 1],
               features |-> [j \in 1..Len(feats[i]) |->
                                FeatureName(feature_names, feats[i][j])]]] :
            feats \in ChoiceSeqs([i \in 1..Len(top) |->
                                     TopK(gains[top[i] + 1], Min2(3, F))])} :
         top \in TopK(temporal_scores, Min2(k_temporal, T))}

\* feature_queries of one sequence with gains [T][F]
FeatureQueries(gains, feature_names, k_features) ==
    LET F == Len(gains[1])
        feature_scores == [f \in 1..F |-> MaxOf(Column(gains, f))]
    IN {[i \in 1..Len(top) |->
            [feature |-> FeatureName(feature_names, top[i]),
             score |-> feature_scores[top[i] + 1],
             best_hour |-> ArgMax(Column(gains, top[i] + 1))]] :
          top \in TopK(feature_scores, Min2(k_features, F))}

\* What get_priority_queries can return: one dictionary per sequence
GetPriorityQueries(gradients, migraine_prob, feature_availability, feature_names, k_temporal, k_features) ==
    LET feature_gains == ComputeFeatureInformationGain(
                             gradients, migraine_prob, feature_availability)
    IN ChoiceSeqs([b \in 1..Len(gradients) |->
           {[temporal_queries |-> tq, feature_queries |-> fq] :
               tq \in TemporalQueries(feature_gains[b], feature_names, k_temporal),
               fq \in FeatureQueries(feature_gains[b], feature_names, k_features)}])

GradValues == {-2, 0, 1}

Probs == {0, 20, 50, 100}

\* The gradients of one sequence, [T][F]
GradSequences ==
    UNION {SeqsOf(SeqsOf(GradValues, shape[2]), shape[1]) :
              shape \in {s \in (1..MaxGainT) \X (1..MaxGainF) :
                            s[1] * s[2] <= MaxGainCells}}

\* The masks of the shape of one sequence over the values of S
MasksLike(g, S) == SeqsOf(SeqsOf(S, Len(g[1])), Len(g))

Checkerboard(g) == [t \in 1..Len(g) |-> [f \in 1..Len(g[t]) |-> (t + f) % 2]]

Reversed(g) == [t \in 1..Len(g) |-> g[Len(g) + 1 - t]]

\* Calls of compute_feature_information_gain on one sequence: every binary
\* mask, a mask of counts, and no mask
GainCalls ==
    \E g \in GradSequences, p \in Probs :
        \E a \in {None, Some(<<[t \in 1..Len(g) |-> [f \in 1..Len(g[t]) |-> 2]]>>)}
                  \cup {Some(<<m>>) : m \in MasksLike(g, {0, 1})} :
            call = [fn |-> "gain", gradients |-> <<g>>, migraine_prob |-> <<p>>,
                    feature_availability |-> a]

\* The gradients without a zero
QueryGrads ==
    {g \in GradSequences :
        \A t \in 1..Len(g) : \A f \in 1..Len(g[t]) : g[t][f] # 0}

\* Calls of get_priority_queries on one sequence with a mask, on one
\* sequence without a mask, and on a batch of two
QueryCalls ==
    \E kt \in 0..MaxGainK, kf \in 0..MaxGainK :
        \/ \E g \in QueryGrads, a \in {"zeros", "checkerboard"} :
              call = [fn |-> "queries", gradients |-> <<g>>, migraine_prob |-> <<50>>,
                      feature_availability |-> a, feature_names |-> None,
                      k_temporal |-> kt, k_features |-> kf]
        \/ \E g \in {s \in GradSequences : <<s>> = OnesLike(<<s>>)} :
              call = [fn |-> "queries", gradients |-> <<g>>, migraine_prob |-> <<50>>,
                      feature_availability |-> "None", feature_names |-> None,
                      k_temporal |-> kt, k_features |-> kf]
        \/ \E g \in QueryGrads :
              call = [fn |-> "queries", gradients |-> <<g, Reversed(g)>>,
                      migraine_prob |-> <<50, 20>>,
                      feature_availability |-> "zeros", feature_names |-> None,
                      k_temporal |-> kt, k_features |-> kf]

\* The mask a call of QueryCalls passes
MaskOf(c) ==
    CASE c.feature_availability = "None" -> None
      [] c.feature_availability = "zeros" -> Some(ZerosLike(c.gradients))
      [] OTHER -> Some([b \in 1..Len(c.gradients) |-> Checkerboard(c.gradients[b])])

InitGains ==
    /\ SimOff
    /\ GainCalls \/ QueryCalls
    /\ ret = NoRet

Gain ==
    /\ call.fn = "gain"
    /\ ret = NoRet
    /\ ret' = [status |-> "ok",
               feature_gains |-> ComputeFeatureInformationGain(
                   call.gradients, call.migraine_prob, call.feature_availability)]
    /\ UNCHANGED <<simVars, svcVars, call>>

Queries ==
    /\ call.fn = "queries"
    /\ ret = NoRet
    /\ \E res \in GetPriorityQueries(call.gradients, call.migraine_prob, MaskOf(call),
                                     call.feature_names, call.k_temporal,
                                     call.k_features) :
          ret' = [status |-> "ok", batch_results |-> res]
    /\ UNCHANGED <<simVars, svcVars, call>>

NextGains == Gain \/ Queries

SpecGains == InitGains /\ [][NextGains]_vars

-----------------------------------------------------------------------------
(* Claims about the information gain *)

Gained == call.fn = "gain" /\ ret # NoRet

Queried == call.fn = "queries" /\ ret # NoRet

\* The gains of sequence b of the call of get_priority_queries
GainsOf(b) ==
    ComputeFeatureInformationGain(call.gradients, call.migraine_prob, MaskOf(call))[b]

\* The largest gain of hour `hour` (0-based) over the features
HourScore(gains, hour) ==
    CHOOSE v \in {gains[hour + 1][f] : f \in 1..Len(gains[1])} :
        \A f \in 1..Len(gains[1]) : v >= gains[hour + 1][f]

\* The largest gain of feature `feat` (0-based) over the hours
FeatureScore(gains, feat) ==
    CHOOSE v \in {gains[t][feat + 1] : t \in 1..Len(gains)} :
        \A t \in 1..Len(gains) : v >= gains[t][feat + 1]

\* The rankings get_priority_queries can return for sequence b with the
\* given k_temporal and k_features
RankingsWith(b, k_temporal, k_features) ==
    {res[1] : res \in GetPriorityQueries(
                          <<call.gradients[b]>>, <<call.migraine_prob[b]>>,
                          IF MaskOf(call).given
                          THEN Some(<<MaskOf(call).value[b]>>) ELSE None,
                          call.feature_names, k_temporal, k_features)}

\* The temporal ranking returned for sequence b is one the function returns
\* with every other k_features, and the feature ranking returned one it
\* returns with every other k_temporal
IndependentAt(b) ==
    \A k \in 0..MaxGainK :
        /\ \E r \in RankingsWith(b, call.k_temporal, k) :
              r.temporal_queries = ret.batch_results[b].temporal_queries
        /\ \E r \in RankingsWith(b, k, call.k_features) :
              r.feature_queries = ret.batch_results[b].feature_queries

\* C21: get_priority_queries returns one result per sequence; its temporal
\* queries are exactly min(k_temporal, T) distinct hours in non-increasing
\* order of the largest gain over the features, its feature queries exactly
\* min(k_features, F) distinct features in non-increasing order of the
\* largest gain over the hours; no unlisted hour or feature scores higher
\* than a listed one, the best_hour of a feature query attains the score of
\* its feature, and the rankings of one axis are the same for every k of the
\* other axis.
C21_TwoRankings ==
    Queried =>
        /\ Len(ret.batch_results) = Len(call.gradients)
        /\ \A b \in 1..Len(call.gradients) :
              LET gains == GainsOf(b)
                  T == Len(gains)
                  F == Len(gains[1])
                  tq == ret.batch_results[b].temporal_queries
                  fq == ret.batch_results[b].feature_queries
                  hours == {tq[i].hour : i \in 1..Len(tq)}
                  feats == {fq[i].feature[2] : i \in 1..Len(fq)}
              IN /\ Len(tq) = Min2(call.k_temporal, T)
                 /\ Cardinality(hours) = Len(tq)
                 /\ hours \subseteq 0..(T - 1)
                 /\ \A i \in 1..Len(tq) : tq[i].score = HourScore(gains, tq[i].hour)
                 /\ \A i \in 1..(Len(tq) - 1) : tq[i].score >= tq[i + 1].score
                 /\ \A h \in (0..(T - 1)) \ hours : \A i \in 1..Len(tq) :
                       HourScore(gains, h) <= tq[i].score
                 /\ Len(fq) = Min2(call.k_features, F)
                 /\ Cardinality(feats) = Len(fq)
                 /\ feats \subseteq 0..(F - 1)
                 /\ \A i \in 1..Len(fq) :
                       /\ fq[i].feature = DefaultName(fq[i].feature[2])
                       /\ fq[i].score = FeatureScore(gains, fq[i].feature[2])
                       /\ fq[i].best_hour \in 0..(T - 1)
                       /\ gains[fq[i].best_hour + 1][fq[i].feature[2] + 1] = fq[i].score
                 /\ \A i \in 1..(Len(fq) - 1) : fq[i].score >= fq[i + 1].score
                 /\ \A f \in (0..(F - 1)) \ feats : \A i \in 1..Len(fq) :
                       FeatureScore(gains, f) <= fq[i].score
                 /\ IndependentAt(b)

\* A batch of two sequences of two hours and two features, one hour and one
\* feature asked of each: the listed hour scores higher than the other one
\* and the best hour of the listed feature is not the first
C21_Witness ==
    /\ Queried
    /\ Len(call.gradients) = 2
    /\ Len(call.gradients[1]) = 2
    /\ Len(call.gradients[1][1]) = 2
    /\ call.k_temporal = 1
    /\ call.k_features = 1
    /\ call.feature_availability = "zeros"
    /\ ret.batch_results[1].temporal_queries[1].score
          > HourScore(GainsOf(1), 1 - ret.batch_results[1].temporal_queries[1].hour)
    /\ ret.batch_results[1].feature_queries[1].best_hour = 1
    /\ ret.batch_results[1].feature_queries[1].score
          > FeatureScore(GainsOf(1), 1 - ret.batch_results[1].feature_queries[1].feature[2])

\* C22: the gain of feature f at time step t is
\* |gradient[t,f]| * p*(1-p) * (1 - availability[t,f]); it is >= 0 for a
\* binary mask, 0 at every observed entry, and 0 everywhere when no mask is
\* passed.
C22_GainFormula ==
    Gained =>
        \A b \in 1..Len(call.gradients) :
        \A t \in 1..Len(call.gradients[b]) :
        \A f \in 1..Len(call.gradients[b][t]) :
            LET g == call.gradients[b][t][f]
                p == call.migraine_prob[b]
                gain == ret.feature_gains[b][t][f]
            IN IF call.feature_availability.given
               THEN LET a == call.feature_availability.value[b][t][f]
                    IN /\ gain = (IF g < 0 THEN -g ELSE g) * (p * (100 - p)) * (1 - a)
                       /\ a \in {0, 1} => gain >= 0
                       /\ a = 1 => gain = 0
               ELSE gain = 0

\* No mask is passed, the gradient is not zero and the probability is
\* neither 0 nor 1
C22_Witness ==
    /\ Gained
    /\ ~call.feature_availability.given
    /\ call.migraine_prob[1] = 50
    /\ \A t \in 1..Len(call.gradients[1]) :
       \A f \in 1..Len(call.gradients[1][t]) : call.gradients[1][t][f] # 0
    /\ Len(call.gradients[1]) = 2
    /\ ret.feature_gains[1] = <<<<0, 0>>, <<0, 0>>>>

-----------------------------------------------------------------------------
(* Shapes of the arguments of compute_priority_scores and                  *)
(* select_topk_hours                                                       *)

MaxShape == 3

\* tensor.shape
Shape(tensor) ==
    CASE tensor.dim = 0 -> <<>>
      [] tensor.dim = 1 -> <<Len(tensor.data)>>
      [] tensor.dim = 2 -> <<Len(tensor.data), Len(tensor.data[1])>>
      [] tensor.dim = 3 -> <<Len(tensor.data), Len(tensor.data[1]),
                             Len(tensor.data[1][1])>>

\* Posterior means of z_dim = 2 and of rank 1, 2 and 3
ShapeMeans ==
    LET steps == {<<0, 0>>, <<9, -9>>}
    IN {[dim |-> 1, data |-> m] : m \in steps}
       \cup UNION {{[dim |-> 2, data |-> m] : m \in SeqsOf(steps, T)}
                   \cup {[dim |-> 3, data |-> <<m>>] : m \in SeqsOf(steps, T)} :
                      T \in 1..ScoreMaxT}

\* Posterior stds of 0.5 of every shape [T, z] and [1, T, z] up to MaxShape
ShapeStds ==
    UNION {{[dim |-> 2, data |-> [t \in 1..T |-> [i \in 1..z |-> 50000000]]],
            [dim |-> 3, data |-> <<[t \in 1..T |-> [i \in 1..z |-> 50000000]]>>]} :
             T \in 1..MaxShape, z \in 1..MaxShape}

\* Scores of rank 0 and of rank 3, [1, 2, 2]
ShapeScores ==
    {[dim |-> 0, data |-> v] : v \in 0..MaxScore}
    \cup {[dim |-> 3, data |-> <<m>>] : m \in SeqsOf(SeqsOf(0..MaxScore, 2), 2)}
    \cup {[dim |-> 1, data |-> row] : row \in SeqsOf(0..MaxScore, 2)}

ShapeCalls ==
    {[fn |-> "score", posterior_mean |-> m, posterior_std |-> s,
      migraine_weights |-> w, migraine_bias |-> -2,
      lambda1 |-> 10, lambda2 |-> 5, lambda3 |-> 3] :
        m \in ShapeMeans, s \in ShapeStds,
        w \in {[i \in 1..n |-> 1] : n \in 1..MaxShape}}
    \cup {[fn |-> "select", priority_scores |-> s, k |-> k, return_scores |-> b] :
             s \in ShapeScores, k \in 0..MaxK, b \in BOOLEAN}

InitShapes ==
    /\ SimOff
    /\ call \in ShapeCalls
    /\ ret = NoRet

NextShapes == Score \/ Select

SpecShapes == InitShapes /\ [][NextShapes]_vars

\* The call passes posterior mean and std of different shapes or ranks, a
\* mean that is neither [T, d] nor [B, T, d], a weight vector whose length
\* is not the latent dimension, or scores that are neither [T] nor [B, T]
Malformed ==
    \/ /\ call.fn = "score"
       /\ \/ call.posterior_mean.dim \notin {2, 3}
          \/ Shape(call.posterior_std) # Shape(call.posterior_mean)
          \/ Len(call.migraine_weights)
                # Shape(call.posterior_mean)[call.posterior_mean.dim]
    \/ /\ call.fn = "select"
       /\ call.priority_scores.dim \notin {1, 2}

\* C23: a call of the scorer or the selector with malformed shapes is
\* rejected with an error; no result is returned for it.
C23_MalformedRejected ==
    (Malformed /\ ret # NoRet) => ret.status # "ok"

-----------------------------------------------------------------------------
(* _compute_temporal_features as a function of the day and the start       *)
(* weekday, called on a simulator whose generator is in some state         *)

MaxDay == 370

TemporalCalls ==
    {[fn |-> "temporal", day |-> d, start_day_of_week |-> s, rng |-> g] :
        d \in 0..MaxDay, s \in 0..6, g \in {0, 1}}

InitTemporal ==
    /\ SimOff
    /\ call \in TemporalCalls
    /\ ret = NoRet

\* The method reads no attribute of self: the generator is left as it was
Temporal ==
    /\ call.fn = "temporal"
    /\ ret = NoRet
    /\ ret' = [status |-> "ok", rng |-> call.rng,
               temporal_features |->
                   ComputeTemporalFeatures(call.day, call.start_day_of_week)]
    /\ UNCHANGED <<simVars, svcVars, call>>

SpecTemporal == InitTemporal /\ [][Temporal]_vars

\* C24: the day-of-week pair of day d is that of day d + 7 and the
\* week-of-year pair of day d that of day d + 364, for every start weekday;
\* the result is the same whatever the state of the generator, and the call
\* leaves the generator as it was.
C24_Periodic ==
    (call.fn = "temporal" /\ ret # NoRet) =>
        LET now == ret.temporal_features
            next_week == ComputeTemporalFeatures(call.day + 7, call.start_day_of_week)
            next_year == ComputeTemporalFeatures(call.day + 364, call.start_day_of_week)
        IN /\ now.day_of_week_sin = next_week.day_of_week_sin
           /\ now.day_of_week_cos = next_week.day_of_week_cos
           /\ now.week_of_year_sin = next_year.week_of_year_sin
           /\ now.week_of_year_cos = next_year.week_of_year_cos
           /\ ret.rng = call.rng
           /\ now = ComputeTemporalFeatures(call.day, call.start_day_of_week)

\* A day in the middle of a week and of the year: both pairs are away from
\* their values at day 0
C24_Witness ==
    /\ call.fn = "temporal"
    /\ ret # NoRet
    /\ call.day = 94
    /\ call.start_day_of_week = 2
    /\ ret.temporal_features.day_of_week_sin = DowSin[6]
    /\ ret.temporal_features.week_of_year_sin = WoySin[14]
    /\ ret.temporal_features # ComputeTemporalFeatures(0, 2)

-----------------------------------------------------------------------------
(* Configurations without forcing and noise: A = I, B = 0, process noise 0 *)

ConfigsOfFrozen ==
    {c \in Configs :
        /\ c.state_transition_matrix = Diagonal(c.latent_dim, 100)
        /\ \A i \in 1..Len(c.input_matrix) :
           \A j \in 1..Len(c.input_matrix[i]) : c.input_matrix[i][j] = 0
        /\ \A i \in 1..Len(c.process_noise) : c.process_noise[i] = 0}

InitFrozen ==
    /\ config \in ConfigsOfFrozen
    /\ InitRuns
    /\ call = NoCall
    /\ ret = NoRet

SpecFrozen == InitFrozen /\ [][Next]_vars

\* C25: with A = I, B = 0 and process noise 0 the latent state of a user
\* never drifts: an iteration of the loop over days leaves Z as it was, and
\* the Z of every record of the user is the Z the user started with.
C25_NoDrift ==
    /\ [](\A r \in Runs :
             pc[r] = "days" =>
                 \A i \in 1..Len(records[r]) : records[r][i].Z = Z[r])
    /\ [][\A r \in Runs : pc[r] = "days" => Z'[r] = Z[r]]_vars

\* Two days of a user are recorded with different observations and the
\* same Z, which is not zero
C25_Witness ==
    /\ pc[1] = "days"
    /\ Len(records[1]) = 2
    /\ records[1][1].cols # records[1][2].cols
    /\ records[1][1].Z = records[1][2].Z
    /\ \E i \in 1..Len(Z[1]) : Z[1][i] # 0

-----------------------------------------------------------------------------
(* The order of a simulation step *)

\* The positions of feature_order whose prior is of the cyclical kind
CyclicalSlots(cfg) ==
    {i \in 1..Len(cfg.feature_order) :
        /\ cfg.feature_order[i] \in DOMAIN cfg.priors
        /\ DistType(cfg.priors[cfg.feature_order[i]]) = "cyclical"}

\* The observation vector with the temporal value of the day, in
\* hundredths, in the cyclical slots
WithTemporal(cfg, observations, temporal_features) ==
    [i \in 1..Len(observations) |->
        IF i \in CyclicalSlots(cfg) /\ cfg.feature_order[i] \in TemporalKeys
        THEN DivRound(temporal_features[cfg.feature_order[i]], 10)
        ELSE observations[i]]

\* C26: a step samples the observations, overrides their cyclical slots
\* with the temporal features of the day, evolves Z, and emits the record:
\* the latent update is driven by the observation vector that holds the
\* temporal values, and the record holds the temporal values in the
\* cyclical slots.
C26_TemporalBeforeUpdate ==
    [][\A r \in Runs :
          (pc[r] = "days" /\ Len(records'[r]) = Len(records[r]) + 1) =>
              LET sampled == SampleObservations(config, rng[r])
                  temporal_features == ComputeTemporalFeatures(day[r], 0)
                  driving == WithTemporal(config, sampled.values, temporal_features)
                  record == records'[r][Len(records'[r])]
              IN /\ Z'[r] = EvolveLatentState(config, Z[r], driving, sampled.rng).Z
                 /\ record.Z = Z'[r]
                 /\ \A i \in CyclicalSlots(config) :
                       record.cols[config.feature_order[i]]
                          = temporal_features[config.feature_order[i]]]_vars

-----------------------------------------------------------------------------
(* Normalisation of the observations *)

\* C27: for observations the sampler has drawn, every feature with a prior
\* is normalised to (value - mean) / max(std, 0.1) with the mean and std of
\* its prior; the divisor is never below 0.1 and the normalisation does not
\* fail.
C27_NormalizeNeverFails ==
    \A r \in Runs :
        (pc[r] = "days" /\ ~HorizonReached(day[r], config.horizon)) =>
            LET sampled == SampleObservations(config, rng[r])
                effect == ComputeInputEffect(config, sampled.values)
            IN sampled.status = "ok" =>
                  /\ effect.status # "KeyError"
                  /\ \A i \in 1..Len(config.feature_order) :
                        config.feature_order[i] \in DOMAIN config.priors =>
                            LET prior == config.priors[config.feature_order[i]]
                            IN /\ StdFloor(PriorStd(prior)) >= 10
                               /\ NormalizedObs(config, sampled.values, i)
                                     = DivRound((sampled.values[i] - PriorMean(prior)) * 100,
                                                StdFloor(PriorStd(prior)))

-----------------------------------------------------------------------------
(* The argument of the exponential in the migraine probability *)

\* The largest argument, in hundredths, at which np.exp is finite in
\* float64
ExpBound == 70978

\* C28 as stated: the logit is restricted to a bounded range before the
\* exponential is applied, so the exponential of a stored probability was
\* never evaluated where it overflows.
C28_LogitClamped ==
    \A r \in Runs : \A rec \in RecordsHeld(r) :
        Abs(ExpArgument(Logit(config, rec.Z))) <= ExpBound

\* C28 as amended: the exponential is applied to the raw -logit and the
\* probability is clipped to [0, 1] afterwards; where exp(-logit)
\* overflows the stored probability is exactly 0.
C28_ClippedAfter ==
    \A r \in Runs : \A rec \in RecordsHeld(r) :
        LET logit == Logit(config, rec.Z)
        IN /\ rec.migraine_prob = NpClip(Sigmoid64(logit), 0, 100000000)
           /\ -logit > ExpBound => rec.migraine_prob = 0

\* A completed run holds a record whose exponential overflowed
C28_Witness ==
    /\ pc[1] = "done"
    /\ \E rec \in RecordsOf(df[1]) :
          /\ -Logit(config, rec.Z) > ExpBound
          /\ rec.migraine_prob = 0
          /\ rec.migraine = 0


(***************************************************************************)
(* RateLimiter of the weather service.  Time is in whole seconds; every   *)
(* coroutine runs atomically between two awaits, so acquire() is two      *)
(* steps: from its entry to asyncio.sleep (or to its return when it does  *)
(* not sleep), and from the end of the sleep to its return.               *)
(***************************************************************************)
MaxCalls == 2
MaxPeriod == 3
MaxClock == 6
MaxAcquires == 4
NTasks == 2

Tasks == 1..NTasks

Idle == [pc |-> "idle", now |-> 0, wake |-> 0]

\* self.calls = [t for t in self.calls if (now - t).total_seconds() < self.period]
Purge(calls, now, period) == SelectSeq(calls, LAMBDA t : now - t < period)

\* wait_time = self.period - (now - self.calls[0]).total_seconds()
WaitTime(calls, now, period) == period - (now - calls[1])

InitLimiter ==
    /\ SimParked
    /\ call = NoCall
    /\ ret = NoRet
    /\ \E max_calls \in 1..MaxCalls, period \in 1..MaxPeriod :
          limiter = [max_calls |-> max_calls, period |-> period, calls |-> <<>>]
    /\ clock = 0
    /\ tasks = [i \in Tasks |-> Idle]
    /\ completed = <<>>

\* acquire() from its entry to its first await, or to its return
Enter(i) ==
    /\ tasks[i].pc = "idle"
    /\ Len(completed) + Cardinality({j \in Tasks : tasks[j].pc = "sleeping"})
          < MaxAcquires
    /\ LET now == clock
           calls == Purge(limiter.calls, now, limiter.period)
       IN  IF /\ Len(calls) >= limiter.max_calls
              /\ WaitTime(calls, now, limiter.period) > 0
           THEN /\ limiter' = [limiter EXCEPT !.calls = calls]
                /\ tasks' = [tasks EXCEPT ![i] =
                       [pc |-> "sleeping", now |-> now,
                        wake |-> now + WaitTime(calls, now, limiter.period)]]
                /\ UNCHANGED completed
           ELSE /\ limiter' = [limiter EXCEPT !.calls = Append(calls, now)]
                /\ completed' = Append(completed, clock)
                /\ UNCHANGED tasks
    /\ UNCHANGED <<simVars, fnVars, clock>>

\* acquire() from the end of asyncio.sleep(wait_time) to its return
Wake(i) ==
    /\ tasks[i].pc = "sleeping"
    /\ clock >= tasks[i].wake
    /\ limiter' = [limiter EXCEPT !.calls = Append(<<>>, tasks[i].now)]
    /\ completed' = Append(completed, clock)
    /\ tasks' = [tasks EXCEPT ![i] = Idle]
    /\ UNCHANGED <<simVars, fnVars, clock>>

\* A second passes; a coroutine whose sleep is over runs first
Tick ==
    /\ clock < MaxClock
    /\ \A i \in Tasks : tasks[i].pc = "sleeping" => clock < tasks[i].wake
    /\ clock' = clock + 1
    /\ UNCHANGED <<simVars, fnVars, limiter, tasks, completed>>

NextLimiter ==
    \/ \E i \in Tasks : Enter(i)
    \/ \E i \in Tasks : Wake(i)
    \/ Tick

SpecLimiter == InitLimiter /\ [][NextLimiter]_vars

\* The calls of acquire() that returned in the period seconds from time t
CompletedInWindow(t) ==
    {j \in DOMAIN completed :
        completed[j] >= t /\ completed[j] < t + limiter.period}

\* C29: in no window of period seconds do more than max_calls calls of
\* acquire() return.
C29_AtMostMaxCalls ==
    \A t \in 0..MaxClock : Cardinality(CompletedInWindow(t)) <= limiter.max_calls


(***************************************************************************)
(* The three inference endpoints of the service.  A request is its number *)
(* of feature rows and whether the inference on it fails; app_state is    *)
(* whether a model is loaded.  An endpoint returns a status code.         *)
(***************************************************************************)
MaxRows == 25
HoursPerDay == 24

Endpoints == {"risk_daily", "posterior_hourly", "policy_topk"}

\* What the body of the try block raises
TryBody(rows, inference) ==
    IF rows # HoursPerDay
    THEN [raised |-> "HTTPException", status_code |-> 400]
    ELSE IF inference # "ok"
         THEN [raised |-> inference, status_code |-> 0]
         ELSE [raised |-> "none", status_code |-> 200]

\* The classes an `except Exception` clause catches: HTTPException derives
\* from Exception
IsException(exc) == exc \in {"HTTPException", "RuntimeError"}

\* The status code of an endpoint: the test of model_loaded, the try block,
\* and the clause `except Exception as e: raise HTTPException(status_code=500)`
Endpoint(model_loaded, rows, inference) ==
    IF ~model_loaded
    THEN 503
    ELSE LET e == TryBody(rows, inference)
         IN  IF IsException(e.raised) THEN 500 ELSE e.status_code

EndpointCalls ==
    [fn : Endpoints, model_loaded : BOOLEAN, rows : 0..MaxRows,
     inference : {"ok", "RuntimeError"}]

InitEndpoints ==
    /\ SimOff
    /\ call \in EndpointCalls
    /\ ret = NoRet

RiskDaily ==
    /\ call.fn = "risk_daily"
    /\ ret = NoRet
    /\ ret' = [status |-> "response",
               status_code |-> Endpoint(call.model_loaded, call.rows, call.inference)]
    /\ UNCHANGED <<simVars, svcVars, call>>

PosteriorHourly ==
    /\ call.fn = "posterior_hourly"
    /\ ret = NoRet
    /\ ret' = [status |-> "response",
               status_code |-> Endpoint(call.model_loaded, call.rows, call.inference)]
    /\ UNCHANGED <<simVars, svcVars, call>>

PolicyTopk ==
    /\ call.fn = "policy_topk"
    /\ ret = NoRet
    /\ ret' = [status |-> "response",
               status_code |-> Endpoint(call.model_loaded, call.rows, call.inference)]
    /\ UNCHANGED <<simVars, svcVars, call>>

NextEndpoints == RiskDaily \/ PosteriorHourly \/ PolicyTopk

SpecEndpoints == InitEndpoints /\ [][NextEndpoints]_vars

\* C30: a request whose features list does not hold exactly 24 rows is
\* answered with 400, any request is answered with 503 when no model is
\* loaded, and 500 is the answer only to a request of 24 rows whose inference
\* failed.
C30_StatusCodes ==
    ret.status = "response" =>
        /\ ~call.model_loaded => ret.status_code = 503
        /\ (call.model_loaded /\ call.rows # HoursPerDay) => ret.status_code = 400
        /\ ret.status_code = 500 =>
              /\ call.model_loaded
              /\ call.rows = HoursPerDay
              /\ call.inference # "ok"

=============================================================================
